---- MODULE Spec2Model ----
(***************************************************************************)
(* Model of the GM actuator controller (selfdrive/car/gm/carcontroller.py) *)
(* and of the radar fusion / lead selection (selfdrive/controls/radard.py).*)
(*                                                                         *)
(* Numbers.  Python floats are modelled in fixed point:                    *)
(*   speeds, accelerations, distances of the controller : 1/1000 of the SI *)
(*     unit (mm/s, mm/s^2, mm), times in ms, unitless factors in 1/1000;   *)
(*   gas and brake commands                             : 1/10 of a count  *)
(*     (a multiple of 10 is an integer count);                             *)
(*   radar distances and speeds                         : 1/100 of the SI  *)
(*     unit (cm, cm/s, cm/s^2).                                            *)
(***************************************************************************)
EXTENDS Integers, Sequences, FiniteSets, TLC

\* ------------------------------------------------------------------ bounds
\* frame numbers handed to CarController.update range over 0..MaxFrame
MaxFrame == 4
\* frame numbers of the steering calls range over 0..MaxSteerFrame
MaxSteerFrame == 2
\* update() calls explored from a fresh CarController, steering and longitudinal runs
MaxSteerCalls == 4
MaxCalls == 2
\* calls of RadarD.update, and of LongRangeLead.update, in a behaviour
MaxRadarCalls == 3
MaxLRLCalls == 3
\* update() calls of a run that counts the frame up from 0, one per call
MaxTicks == 21
\* update() calls of a run that holds one scenario, the frame counting up from 0
MaxScenarioTicks == 134

\* ------------------------------------------------------------- arithmetic
Max(a, b) == IF a >= b THEN a ELSE b
Min(a, b) == IF a <= b THEN a ELSE b
Abs(a) == IF a >= 0 THEN a ELSE -a

\* common.numpy_fast.clip(x, lo, hi) = max(lo, min(hi, x))
clip(x, lo, hi) == Max(lo, Min(hi, x))

\* n/d rounded to the nearest integer, halves to even (d > 0): Python's round()
RoundDiv(n, d) ==
  LET q == n \div d
      r == n % d
  IN  IF 2 * r < d THEN q
      ELSE IF 2 * r > d THEN q + 1
      ELSE IF q % 2 = 0 THEN q ELSE q + 1

\* common.numpy_fast.interp(x, xp, fp): piecewise linear, clamped at both ends.
\* InterpHi is the loop `while hi < N and x > xp[hi]: hi += 1` started at hi.
RECURSIVE InterpHi(_, _, _)
InterpHi(x, xp, hi) ==
  IF hi < Len(xp) /\ x > xp[hi + 1] THEN InterpHi(x, xp, hi + 1) ELSE hi

interp(x, xp, fp) ==
  LET hi == InterpHi(x, xp, 0)
  IN  IF hi = Len(xp) THEN fp[Len(xp)]
      ELSE IF hi = 0 THEN fp[1]
      ELSE RoundDiv((x - xp[hi]) * (fp[hi + 1] - fp[hi]), xp[hi + 1] - xp[hi]) + fp[hi]

\* int(round(x)) of a command held in tenths of a count, again in tenths
IntRound(x) == 10 * RoundDiv(x, 10)
IsInt(x) == x % 10 = 0

\* ===================================================================
\*  Actuator controller: selfdrive/car/gm/carcontroller.py
\* ===================================================================

\* ---- CarControllerParams (selfdrive/car/gm/values.py) ----
\* values.py is not among the sources: the steering limits are small stand-ins,
\* the lookup tables are monotone as the data model requires.
STEER_STEP == 2
STEER_MAX == 3
STEER_DELTA_UP == 1
STEER_DELTA_DOWN == 2
MIN_STEER_SPEED == 3000
MAX_ACC_REGEN == 1404
ZERO_GAS == 2048
MAX_GAS == 3072
MAX_BRAKE == 350
NEAR_STOP_BRAKE_PHASE == 500
ADAS_KEEPALIVE_STEP == 100
CAMERA_KEEPALIVE_STEP == 100
GAS_LOOKUP_BP == <<-1000, 0, 2000>>
GAS_LOOKUP_V == <<10 * MAX_ACC_REGEN, 10 * ZERO_GAS, 10 * MAX_GAS>>
BRAKE_LOOKUP_BP == <<-4000, -1000>>
BRAKE_LOOKUP_V == <<10 * MAX_BRAKE, 0>>

\* selfdrive.car.apply_std_steer_torque_limits without the driver-torque window:
\* the magnitude may grow by STEER_DELTA_UP and shrink by STEER_DELTA_DOWN per call
apply_std_steer_torque_limits(apply_torque, apply_torque_last) ==
  LET t == clip(apply_torque, -STEER_MAX, STEER_MAX)
  IN  IF apply_torque_last > 0
      THEN clip(t, Max(apply_torque_last - STEER_DELTA_DOWN, -STEER_DELTA_UP),
                apply_torque_last + STEER_DELTA_UP)
      ELSE clip(t, apply_torque_last - STEER_DELTA_UP,
                Min(apply_torque_last + STEER_DELTA_DOWN, STEER_DELTA_UP))

\* ---- module constants of carcontroller.py ----
ACCEL_PITCH_FACTOR_BP == <<5000, 10000>>
ACCEL_PITCH_FACTOR_V == <<0, 1000>>
ONE_PEDAL_ACCEL_PITCH_FACTOR_BP == <<4000, 8000>>
ONE_PEDAL_ACCEL_PITCH_FACTOR_V == <<400, 1000>>
ONE_PEDAL_ACCEL_PITCH_FACTOR_INCLINE_V == <<200, 1000>>
\* [0.5, 6], [4, 12, 30], [4, 16, 30] mph in mm/s
ONE_PEDAL_MODE_DECEL_BP == << <<224, 2682>>, <<1788, 5364, 13411>>, <<1788, 7153, 13411>> >>
ONE_PEDAL_MODE_DECEL_V == << <<-1000, -1100>>, <<-1300, -1700, -1800>>, <<-1700, -2600, -2400>> >>
ONE_PEDAL_MIN_SPEED == 2100
\* 0.8 * DT_CTRL * 4 with DT_CTRL = 0.01 s, in mm/s^2 per 25 Hz slot
ONE_PEDAL_DECEL_RATE_LIMIT_UP == 32
ONE_PEDAL_DECEL_RATE_LIMIT_DOWN == 32
ONE_PEDAL_MAX_DECEL == -3500
ONE_PEDAL_SPEED_ERROR_FACTOR_BP == <<1500, 20000>>
ONE_PEDAL_SPEED_ERROR_FACTOR_V == <<400, 200>>
ONE_PEDAL_LEAD_ACCEL_RATE_LOCKOUT_T == 600
\* selfdrive.controls.lib.vehicle_model.ACCELERATION_DUE_TO_GRAVITY, mm/s^2
ACCELERATION_DUE_TO_GRAVITY == 9810

\* ---- CarState tables (selfdrive/car/gm/carstate.py, not among the sources) ----
\* stand-ins with values in [0, 1] (here 0..1000); bp in mm/s, ms, 1/1000, mm
lead_v_rel_long_gas_lockout_bp == <<-5000, -3000>>
lead_v_rel_long_gas_lockout_v == <<1000, 0>>
lead_v_long_gas_lockout_bp == <<3000, 5000>>
lead_v_long_gas_lockout_v == <<1000, 0>>
lead_ttc_long_gas_lockout_bp == <<8000, 12000>>
lead_ttc_long_gas_lockout_v == <<1000, 0>>
lead_tr_long_gas_lockout_bp == <<1000, 2000>>
lead_tr_long_gas_lockout_v == <<1000, 0>>
lead_d_long_gas_lockout_bp == <<12000, 20000>>
lead_d_long_gas_lockout_v == <<1000, 0>>
lead_v_rel_long_brake_lockout_bp == <<-9000, -6000>>
lead_v_rel_long_brake_lockout_v == <<1000, 0>>
lead_v_long_brake_lockout_bp == <<2000, 4000>>
lead_v_long_brake_lockout_v == <<1000, 0>>
lead_ttc_long_brake_lockout_bp == <<4000, 8000>>
lead_ttc_long_brake_lockout_v == <<1000, 0>>
lead_tr_long_brake_lockout_bp == <<500, 1000>>
lead_tr_long_brake_lockout_v == <<1000, 0>>
lead_d_long_brake_lockout_bp == <<8000, 12000>>
lead_d_long_brake_lockout_v == <<1000, 0>>
one_pedal_angle_steers_cutoff_bp == <<60, 180>>
coasting_over_speed_vEgo_BP_BP == <<5000, 30000>>
coasting_over_speed_vEgo_BP == << <<1300, 1200>>, <<1600, 1400>> >>
coasting_over_speed_regen_vEgo_BP == << <<1150, 1100>>, <<1300, 1200>> >>

Last(s) == s[Len(s)]
MaxOf(S) == CHOOSE x \in S : \A y \in S : y <= x

\* lines 129-131: closing speed, time to collision (ms, capped at 100 s), time gap (ms)
LeadVRel(in) == in.coasting_lead_v - in.vEgo
LeadTtc(in) ==
  Min(IF in.coasting_lead_d > 0 /\ LeadVRel(in) < 0
      THEN RoundDiv(in.coasting_lead_d * 1000, -LeadVRel(in)) ELSE 100000, 100000)
LeadDTime(in) ==
  IF in.coasting_lead_d > 0 /\ in.vEgo > 0 /\ in.tr > 0
  THEN RoundDiv(in.coasting_lead_d * 1000, in.vEgo) ELSE 10000

\* lines 133-137 and 145-149: the tripwire that enables a lockout evaluation
LockoutTrip(in, ttc_bp, v_rel_bp, v_bp, tr_bp, d_bp) ==
  /\ in.coasting_lead_d > 0
  /\ \/ LeadTtc(in) < Last(ttc_bp)
     \/ LeadVRel(in) < Last(v_rel_bp)
     \/ in.coasting_lead_v < Last(v_bp)
     \/ LeadDTime(in) * 1000 < in.tr * Last(tr_bp)
     \/ in.coasting_lead_d < Last(d_bp)

\* d_time / CS.tr in 1/1000; the caller has excluded CS.tr = 0
TimeGapRatio(in) ==
  IF in.tr > 0 THEN RoundDiv(LeadDTime(in) * 1000, in.tr)
  ELSE -RoundDiv(LeadDTime(in) * 1000, -in.tr)

\* lines 138-143: the five-axis maximum for the gas lockout
lead_long_gas_lockout_factor(in) ==
  IF LockoutTrip(in, lead_ttc_long_gas_lockout_bp, lead_v_rel_long_gas_lockout_bp,
                 lead_v_long_gas_lockout_bp, lead_tr_long_gas_lockout_bp,
                 lead_d_long_gas_lockout_bp)
  THEN MaxOf({interp(LeadVRel(in), lead_v_rel_long_gas_lockout_bp, lead_v_rel_long_gas_lockout_v),
              interp(in.coasting_lead_v, lead_v_long_gas_lockout_bp, lead_v_long_gas_lockout_v),
              interp(LeadTtc(in), lead_ttc_long_gas_lockout_bp, lead_ttc_long_gas_lockout_v),
              interp(TimeGapRatio(in), lead_tr_long_gas_lockout_bp, lead_tr_long_gas_lockout_v),
              interp(in.coasting_lead_d, lead_d_long_gas_lockout_bp, lead_d_long_gas_lockout_v)})
  ELSE 0

\* lines 145-160: the brake lockout is evaluated only inside the gas tripwire
lead_long_brake_lockout_factor(in) ==
  IF /\ LockoutTrip(in, lead_ttc_long_gas_lockout_bp, lead_v_rel_long_gas_lockout_bp,
                    lead_v_long_gas_lockout_bp, lead_tr_long_gas_lockout_bp,
                    lead_d_long_gas_lockout_bp)
     /\ LockoutTrip(in, lead_ttc_long_brake_lockout_bp, lead_v_rel_long_brake_lockout_bp,
                    lead_v_long_brake_lockout_bp, lead_tr_long_brake_lockout_bp,
                    lead_d_long_brake_lockout_bp)
  THEN MaxOf({interp(LeadVRel(in), lead_v_rel_long_brake_lockout_bp, lead_v_rel_long_brake_lockout_v),
              interp(in.coasting_lead_v, lead_v_long_brake_lockout_bp, lead_v_long_brake_lockout_v),
              interp(LeadTtc(in), lead_ttc_long_brake_lockout_bp, lead_ttc_long_brake_lockout_v),
              interp(TimeGapRatio(in), lead_tr_long_brake_lockout_bp, lead_tr_long_brake_lockout_v),
              interp(in.coasting_lead_d, lead_d_long_brake_lockout_bp, lead_d_long_brake_lockout_v)})
  ELSE 0

\* line 142: d_time / CS.tr raises ZeroDivisionError when the gas tripwire fired
\* and CS.tr is 0
LockoutRaises(in) ==
  /\ in.tr = 0
  /\ LockoutTrip(in, lead_ttc_long_gas_lockout_bp, lead_v_rel_long_gas_lockout_bp,
                 lead_v_long_gas_lockout_bp, lead_tr_long_gas_lockout_bp,
                 lead_d_long_gas_lockout_bp)

\* selfdrive.controls.lib.longitudinal_planner.COAST_SOURCES (not among the sources)
COAST_SOURCES == {"cruise", "limit"}

\* ---- the controller's state (CarController.__init__) ----
VARIABLES
  apply_steer_last,               \* last applied steering torque
  lka_steering_cmd_counter_last,  \* last loopback counter seen
  lka_icon_status_last,           \* <<lka_active, lka_critical>>
  steer_rate_limited,
  one_pedal_pid,                  \* "reset" after reset(), "running" after update()
  one_pedal_decel,
  one_pedal_decel_in,
  lead_accel_last_t,
  apply_gas,                      \* tenths of a count
  apply_brake,                    \* tenths of a count
  CS,                             \* the CarState fields update() writes back
  can_sends,                      \* the frame list the last call returned
  raised,                         \* the last call ended in an exception
  cin,                            \* the arguments of the last call (history)
  long_branch,                    \* the longitudinal branch the last call took (history)
  steer_idx_hist,                 \* the last two steering frames sent: counter idx, loopback counter lb (history)
  pre,                            \* the controller's fields before the last call (history)
  ncalls                          \* update() calls made so far

cc_vars == <<apply_steer_last, lka_steering_cmd_counter_last, lka_icon_status_last,
             steer_rate_limited, one_pedal_pid, one_pedal_decel, one_pedal_decel_in,
             lead_accel_last_t, apply_gas, apply_brake, CS, can_sends, raised, cin,
             long_branch, steer_idx_hist, pre, ncalls>>

\* lines 109-115 with the gas left at zero torque and the filter input not snapped
DisabledBranch_ZeroGas(aEgo) ==
  [apply_gas |-> 10 * ZERO_GAS, apply_brake |-> 0, one_pedal_pid |-> "reset",
   one_pedal_decel |-> aEgo, one_pedal_decel_in |-> 0,
   no_pitch_apply_gas |-> 0, branch |-> "disabled"]

\* lines 109-115: the disabled branch
DisabledBranch(aEgo) ==
  [apply_gas |-> 10 * MAX_ACC_REGEN, apply_brake |-> 0, one_pedal_pid |-> "reset",
   one_pedal_decel |-> aEgo, one_pedal_decel_in |-> aEgo,
   no_pitch_apply_gas |-> 0, branch |-> "disabled"]

\* line 186 alone: the rate limit without the floor of line 187
OnePedalRateLimit_NoFloor(raw, old) ==
  clip(raw,
       old - RoundDiv(ONE_PEDAL_DECEL_RATE_LIMIT_UP * Max(2000, 1000 - raw), 2000),
       old + ONE_PEDAL_DECEL_RATE_LIMIT_DOWN)

\* lines 186-187 with the clip of line 186 left out: the PID output, floored
OnePedalRateLimit_NoClip(raw, old) == Max(raw, ONE_PEDAL_MAX_DECEL)

\* lines 186-187: rate limit of the one-pedal deceleration, then the floor
OnePedalRateLimit(raw, old) ==
  Max(clip(raw,
           old - RoundDiv(ONE_PEDAL_DECEL_RATE_LIMIT_UP * Max(2000, 1000 - raw), 2000),
           old + ONE_PEDAL_DECEL_RATE_LIMIT_DOWN),
      ONE_PEDAL_MAX_DECEL)

\* lines 193-195: which brake wins in one-pedal mode
BrakeMerge_AlwaysOnePedal(op_braking_allowed, one_pedal_apply_brake, planner_brake) ==
  one_pedal_apply_brake

BrakeMerge(op_braking_allowed, one_pedal_apply_brake, planner_brake) ==
  IF ~op_braking_allowed \/ one_pedal_apply_brake > planner_brake
  THEN one_pedal_apply_brake ELSE planner_brake

\* line 168 (and 190): coasting in L gear
DLCoasting(in) ==
  in.gear_shifter_ev = 4 /\ in.one_pedal_dl_coasting_enabled /\ in.vEgo > 50

\* line 176 reading the table of the next brake mode
OnePedalDecelIn_NextMode(in) ==
  LET m == Min(3, in.one_pedal_brake_mode + 2)
  IN  interp(in.vEgo, ONE_PEDAL_MODE_DECEL_BP[m], ONE_PEDAL_MODE_DECEL_V[m])

\* lines 176-179: the one-pedal target deceleration
OnePedalDecelIn(in) ==
  LET m    == in.one_pedal_brake_mode + 1
      base == interp(in.vEgo, ONE_PEDAL_MODE_DECEL_BP[m], ONE_PEDAL_MODE_DECEL_V[m])
      m1   == Max(0, in.one_pedal_brake_mode - 1) + 1
      minus1 == interp(in.vEgo, ONE_PEDAL_MODE_DECEL_BP[m1], ONE_PEDAL_MODE_DECEL_V[m1])
  IN  IF Abs(in.angle_steers) > one_pedal_angle_steers_cutoff_bp[1]
      THEN interp(Abs(in.angle_steers), one_pedal_angle_steers_cutoff_bp, <<base, minus1>>)
      ELSE base

\* line 197: `A and B or C` groups as (A and B) or C
CoastAdjust(in, gas, brake) ==
  (in.coasting_long_plan \in COAST_SOURCES /\ gas < 10 * ZERO_GAS) \/ brake > 0

\* line 198
CheckSpeedMs(in) ==
  RoundDiv((IF in.speed_limit_active /\ in.speed_limit < in.v_cruise_kph
            THEN in.speed_limit ELSE in.v_cruise_kph) * 10000, 36)

\* lines 200-204 and 208-212: over-speed factor in 1/1000
OverSpeedFactor(in, table) ==
  IF CheckSpeedMs(in) > 0 /\ in.coasting_brake_over_speed_enabled
  THEN interp(RoundDiv(in.vEgo * 1000, CheckSpeedMs(in)),
              <<interp(in.vEgo, coasting_over_speed_vEgo_BP_BP, table[1]),
                interp(in.vEgo, coasting_over_speed_vEgo_BP_BP, table[2])>>,
              <<0, 1000>>)
  ELSE 0

\* CarControllerParams.update_gas_brake_threshold(v, engine running): the
\* coast-neutral acceleration; a speed-scheduled stand-in
update_gas_brake_threshold(v, ice_on) ==
  interp(v, <<1000, 10000>>, IF ice_on THEN <<-400, -900>> ELSE <<-600, -1200>>)

\* lines 167-195 starting from this slot's aEgo instead of the stored values
OnePedalBranch_SnapOnEntry(in, ag, ab, pid, decel, decel_in, threshold_accel, npg) ==
  LET gas == IF ~in.one_pedal_mode_active /\ DLCoasting(in)
             THEN 10 * ZERO_GAS ELSE 10 * MAX_ACC_REGEN
  IN  IF in.one_pedal_mode_active
      THEN LET d   == OnePedalRateLimit(in.pid_out, in.aEgo)
               opb == interp(d, BRAKE_LOOKUP_BP, BRAKE_LOOKUP_V)
           IN  [apply_gas |-> gas,
                apply_brake |-> BrakeMerge(in.one_pedal_mode_op_braking_allowed, opb, ab),
                one_pedal_pid |-> "running", one_pedal_decel |-> d,
                one_pedal_decel_in |-> OnePedalDecelIn(in), no_pitch_apply_gas |-> npg,
                branch |-> "one_pedal"]
      ELSE LET din == clip(IF DLCoasting(in) THEN 0 ELSE Min(in.aEgo, threshold_accel),
                           in.aEgo - ONE_PEDAL_DECEL_RATE_LIMIT_UP,
                           in.aEgo + ONE_PEDAL_DECEL_RATE_LIMIT_DOWN)
           IN  [apply_gas |-> gas,
                apply_brake |-> BrakeMerge(in.one_pedal_mode_op_braking_allowed, 0, ab),
                one_pedal_pid |-> pid, one_pedal_decel |-> in.aEgo,
                one_pedal_decel_in |-> din, no_pitch_apply_gas |-> npg,
                branch |-> "coast_one_pedal"]

\* lines 167-195: one-pedal and coast-one-pedal; ag, ab are the planner's values
OnePedalBranch(in, ag, ab, pid, decel, decel_in, threshold_accel, npg) ==
  LET gas == IF ~in.one_pedal_mode_active /\ DLCoasting(in)
             THEN 10 * ZERO_GAS ELSE 10 * MAX_ACC_REGEN
  IN  IF in.one_pedal_mode_active
      THEN LET din == OnePedalDecelIn(in)
               \* line 184: one_pedal_pid.update(...), an output within the PID limits
               d   == OnePedalRateLimit(in.pid_out, decel)
               opb == interp(d, BRAKE_LOOKUP_BP, BRAKE_LOOKUP_V)
           IN  [apply_gas |-> gas,
                apply_brake |-> BrakeMerge(in.one_pedal_mode_op_braking_allowed, opb, ab),
                one_pedal_pid |-> "running", one_pedal_decel |-> d,
                one_pedal_decel_in |-> din, no_pitch_apply_gas |-> npg,
                branch |-> "one_pedal"]
      ELSE LET din == clip(IF DLCoasting(in) THEN 0 ELSE Min(in.aEgo, threshold_accel),
                           decel_in - ONE_PEDAL_DECEL_RATE_LIMIT_UP,
                           decel_in + ONE_PEDAL_DECEL_RATE_LIMIT_DOWN)
           IN  [apply_gas |-> gas,
                apply_brake |-> BrakeMerge(in.one_pedal_mode_op_braking_allowed, 0, ab),
                one_pedal_pid |-> pid, one_pedal_decel |-> decel,
                one_pedal_decel_in |-> din, no_pitch_apply_gas |-> npg,
                branch |-> "coast_one_pedal"]

\* lines 196-214: coasting with over-speed braking
CoastingBranch(in, ag, ab, gasf, brakef) ==
  IF CoastAdjust(in, ag, ab)
  THEN LET ab1 == IF ab > 0
                  THEN RoundDiv(ab * Max(brakef, OverSpeedFactor(in, coasting_over_speed_vEgo_BP)), 1000)
                  ELSE ab
           osf == OverSpeedFactor(in, coasting_over_speed_regen_vEgo_BP)
           coast_apply_gas == 10 * RoundDiv(10000 * ZERO_GAS - osf * (10 * ZERO_GAS - ag), 10000)
           ag1 == IF ag < 10 * ZERO_GAS /\ gasf < 1000
                  THEN RoundDiv(ag * gasf + coast_apply_gas * (1000 - gasf), 1000)
                  ELSE ag
       IN  [gas |-> ag1, brake |-> ab1]
  ELSE [gas |-> ag, brake |-> ab]

\* lines 215-217: no friction braking
NoFrictionBrake(in, ab, brakef) ==
  IF in.coasting_long_plan \in COAST_SOURCES /\ ab > 0
  THEN RoundDiv(ab * brakef, 1000) ELSE ab

\* lines 117-222: the enabled branch of a 25 Hz slot
EnabledBranch(in, pid, decel, decel_in, last_t) ==
  LET k == interp(in.vEgo, ACCEL_PITCH_FACTOR_BP, ACCEL_PITCH_FACTOR_V)
      brake_accel == RoundDiv(k * in.accelPitchCompensated + (1000 - k) * in.accel, 1000)
      threshold_accel ==
        IF in.one_pedal_mode_active
           /\ (~in.one_pedal_mode_op_braking_allowed
               \/ in.t - last_t > ONE_PEDAL_LEAD_ACCEL_RATE_LOCKOUT_T)
        THEN update_gas_brake_threshold(Max(in.vEgo, ONE_PEDAL_MIN_SPEED), in.engineRPM > 0)
        ELSE update_gas_brake_threshold(in.vEgo, in.engineRPM > 0)
      ag  == interp(in.accelPitchCompensated, GAS_LOOKUP_BP, GAS_LOOKUP_V)
      npg == interp(in.accel, GAS_LOOKUP_BP, GAS_LOOKUP_V)
      ab  == interp(brake_accel, BRAKE_LOOKUP_BP, BRAKE_LOOKUP_V)
  IN  IF LockoutRaises(in)
      THEN [apply_gas |-> ag, apply_brake |-> ab, one_pedal_pid |-> pid,
            one_pedal_decel |-> decel, one_pedal_decel_in |-> decel_in,
            no_pitch_apply_gas |-> npg, branch |-> "raised"]
      ELSE
      LET gasf   == lead_long_gas_lockout_factor(in)
          brakef == lead_long_brake_lockout_factor(in)
          off    == ~in.one_pedal_mode_active /\ ~in.coast_one_pedal_mode_active
          r == IF ~off
               THEN OnePedalBranch(in, ag, ab, pid, decel, decel_in, threshold_accel, npg)
               ELSE LET gb == IF in.coasting_enabled /\ brakef < 1000
                              THEN CoastingBranch(in, ag, ab, gasf, brakef)
                              ELSE IF in.no_friction_braking /\ brakef < 1000
                              THEN [gas |-> ag, brake |-> NoFrictionBrake(in, ab, brakef)]
                              ELSE [gas |-> ag, brake |-> ab]
                    IN  \* lines 162-165: one-pedal off resets the PID and snaps to aEgo
                        [apply_gas |-> gb.gas, apply_brake |-> gb.brake,
                         one_pedal_pid |-> "reset", one_pedal_decel |-> in.aEgo,
                         one_pedal_decel_in |-> in.aEgo, no_pitch_apply_gas |-> npg,
                         branch |-> IF in.coasting_enabled /\ brakef < 1000 THEN "coasting"
                                    ELSE IF in.no_friction_braking /\ brakef < 1000
                                    THEN "no_friction" ELSE "plain"]
      IN  \* lines 218-219
          [r EXCEPT !.apply_gas = IntRound(r.apply_gas),
                    !.apply_brake = IntRound(r.apply_brake)]

\* lines 225-243: the brake indicator, in 1/10 percent; ab, ag are self.apply_brake, self.apply_gas
ApplyBrakePercent(in, ab, ag, old) ==
  LET hvb == in.hvb_percent
      drv == interp(in.out_brake, <<0, 500>>, <<510, 1000>>)
  IN  IF ~in.showBrakeIndicator THEN old
      ELSE IF in.vEgo > 100
      THEN IF in.cruise_enabled
           THEN IF ~in.pause_long_on_gas_press
                THEN IF ab > 10
                     THEN interp(ab, <<Last(BRAKE_LOOKUP_V), BRAKE_LOOKUP_V[1]>>, <<510, 1000>>)
                     ELSE IF in.one_pedal_mode_active \/ in.coast_one_pedal_mode_active THEN hvb
                     ELSE IF ag < 10 * ZERO_GAS
                     THEN interp(ag, <<GAS_LOOKUP_V[1], GAS_LOOKUP_V[2]>>, <<510, 0>>)
                     ELSE 0
                ELSE hvb
           ELSE IF in.is_ev /\ in.out_brake = 0 THEN hvb
           ELSE IF in.out_brake > 0 THEN drv ELSE 0
      ELSE IF in.out_brake > 0 THEN drv ELSE 0

\* a CAN frame as the gmcan.create_* call that builds it: its kind, rolling
\* counter, value and two flags
Frame(kind, idx, val, a, b) == [kind |-> kind, idx |-> idx, val |-> val, a |-> a, b |-> b]

\* line 103 without the increment
SteerIdx_NoIncrement(lka_steering_cmd_counter) == lka_steering_cmd_counter % 4

\* line 103: the steering counter follows the last loopback-confirmed one
SteerIdx(lka_steering_cmd_counter) == (lka_steering_cmd_counter + 1) % 4

\* line 88 with the test inverted: skip while no new confirmation has come
LoopbackJustSeen_Inverted(cs_counter, counter_last) == cs_counter = counter_last

\* line 88: a new loopback confirmation in this CS frame skips the transmit
LoopbackJustSeen(cs_counter, counter_last) == cs_counter # counter_last

\* line 91
LkasEnabled(enabled, in) ==
  /\ (enabled \/ in.pause_long_on_gas_press)
  /\ in.lkMode
  /\ ~in.steerFault
  /\ in.vEgo > MIN_STEER_SPEED
  /\ in.lane_change_steer_factor > 0

\* line 249: the auto-hold state
AutoHold_WhileEngaged(enabled, in) ==
  /\ in.cruiseMain /\ in.autoHold /\ in.autoHoldActive
  /\ ~in.gasPressed /\ in.gearShifter \in {"drive", "low"}
  /\ in.vEgo < 20 /\ ~in.regenPaddlePressed

\* line 250: the auto-hold condition
AutoHold(enabled, in) ==
  /\ in.cruiseMain /\ ~enabled /\ in.autoHold /\ in.autoHoldActive
  /\ ~in.gasPressed /\ in.gearShifter \in {"drive", "low"}
  /\ in.vEgo < 20 /\ ~in.regenPaddlePressed

\* lines 246-284 with the counter of line 247 taken from the frame itself
LongFrames_FrameCounter(enabled, in, ab, ag, npg) ==
  LET idx == in.frame % 4
  IN  IF AutoHold(enabled, in)
      THEN [frames |-> <<Frame("friction_brake", idx, ab, FALSE, FALSE)>>,
            autoHoldActivated |-> TRUE, resume_button |-> FALSE, resume_required |-> FALSE]
      ELSE [frames |-> <<Frame("friction_brake", idx, ab, FALSE, FALSE),
                         Frame("gas_regen", idx, ag, enabled, FALSE)>>,
            autoHoldActivated |-> FALSE, resume_button |-> FALSE,
            resume_required |-> FALSE]

\* lines 246-284 with the gas/regen frame appended before the friction-brake frame
LongFrames_GasFirst(enabled, in, ab, ag, npg) ==
  LET idx == (in.frame \div 4) % 4
  IN  IF AutoHold(enabled, in)
      THEN [frames |-> <<Frame("friction_brake", idx, ab, FALSE, FALSE)>>,
            autoHoldActivated |-> TRUE, resume_button |-> FALSE, resume_required |-> FALSE]
      ELSE [frames |-> <<Frame("gas_regen", idx, ag, enabled, FALSE),
                         Frame("friction_brake", idx, ab, FALSE, FALSE)>>,
            autoHoldActivated |-> FALSE, resume_button |-> FALSE,
            resume_required |-> FALSE]

\* lines 246-284 with line 277 testing standstill alone
LongFrames_ResumeAtStandstill(enabled, in, ab, ag, npg) ==
  LET idx == (in.frame \div 4) % 4
      car_stopping == npg < 10 * ZERO_GAS
      standstill == in.pcm_acc_status = "standstill"
  IN  IF AutoHold(enabled, in)
      THEN [frames |-> <<Frame("friction_brake", idx, ab,
                               in.vEgo < NEAR_STOP_BRAKE_PHASE /\ car_stopping,
                               standstill /\ car_stopping)>>,
            autoHoldActivated |-> TRUE, resume_button |-> FALSE, resume_required |-> FALSE]
      ELSE LET p == in.pause_long_on_gas_press
               at_full_stop == ~p /\ enabled /\ standstill /\ car_stopping
               near_stop == ~p /\ enabled /\ in.vEgo < NEAR_STOP_BRAKE_PHASE /\ car_stopping
               resume == ~p /\ standstill
           IN  [frames |-> <<Frame("friction_brake", idx, ab, near_stop, at_full_stop),
                             Frame("gas_regen", idx, ag,
                                   IF resume /\ in.do_sng THEN FALSE ELSE enabled,
                                   at_full_stop)>>,
                autoHoldActivated |-> FALSE,
                resume_button |-> resume /\ in.do_sng,
                resume_required |-> resume /\ ~in.do_sng /\ in.vEgo < 1500]

\* lines 246-284: friction brake and gas/regen frames of a 25 Hz slot, with the
\* resume flags they set
LongFrames(enabled, in, ab, ag, npg) ==
  LET idx == (in.frame \div 4) % 4
      car_stopping == npg < 10 * ZERO_GAS
      standstill == in.pcm_acc_status = "standstill"
  IN  IF AutoHold(enabled, in)
      THEN [frames |-> <<Frame("friction_brake", idx, ab,
                               in.vEgo < NEAR_STOP_BRAKE_PHASE /\ car_stopping,
                               standstill /\ car_stopping)>>,
            autoHoldActivated |-> TRUE, resume_button |-> FALSE, resume_required |-> FALSE]
      ELSE LET p == in.pause_long_on_gas_press
               cs == ~p /\ car_stopping
               st == ~p /\ standstill
               at_full_stop == ~p /\ enabled /\ standstill /\ car_stopping
               near_stop == ~p /\ enabled /\ in.vEgo < NEAR_STOP_BRAKE_PHASE /\ car_stopping
               resume == st /\ ~cs
           IN  [frames |-> <<Frame("friction_brake", idx, ab, near_stop, at_full_stop),
                             Frame("gas_regen", idx, ag,
                                   IF resume /\ in.do_sng THEN FALSE ELSE enabled,
                                   at_full_stop)>>,
                autoHoldActivated |-> FALSE,
                resume_button |-> resume /\ in.do_sng,
                resume_required |-> resume /\ ~in.do_sng /\ in.vEgo < 1500]

\* lines 296-313: the radar keep-alive frames
AdasFrames(in) ==
  (IF in.frame % 10 = 0
   THEN <<Frame("adas_time", (in.frame \div 10) % 4, (in.frame * 60) \div 100, FALSE, FALSE),
          Frame("adas_headlights", 0, 0, FALSE, FALSE)>>
   ELSE << >>)
  \o (IF in.frame % 2 = 0
      THEN <<Frame("adas_steering_status", (in.frame \div 2) % 4, 0, FALSE, FALSE),
             Frame("adas_accelerometer_speed", (in.frame \div 2) % 4, in.vEgo, FALSE, FALSE)>>
      ELSE << >>)
  \o (IF in.frame % ADAS_KEEPALIVE_STEP = 0
      THEN <<Frame("adas_keepalive", 0, 0, FALSE, FALSE)>> ELSE << >>)

\* lines 319-321
LkaIconStatus(in) == <<in.lkas_status = 1, in.lkas_status = 1 /\ Abs(in.steer) > 900>>

\* the controller's fields, as a record
Snapshot ==
  [apply_steer_last |-> apply_steer_last,
   lka_steering_cmd_counter_last |-> lka_steering_cmd_counter_last,
   lka_icon_status_last |-> lka_icon_status_last,
   steer_rate_limited |-> steer_rate_limited,
   one_pedal_pid |-> one_pedal_pid, one_pedal_decel |-> one_pedal_decel,
   one_pedal_decel_in |-> one_pedal_decel_in,
   apply_gas |-> apply_gas, apply_brake |-> apply_brake,
   steer_idx_hist |-> steer_idx_hist,
   resume_required |-> CS.resume_required,
   long_branch |-> long_branch]

\* ---- CarController.update(enabled, CS, frame, actuators, ...) ----
\* `in` holds the arguments: frame, enabled, the CS fields read and actuators.
CCUpdate(in) ==
  LET \* lines 85-105: steering
      skip == LoopbackJustSeen(in.lka_steering_cmd_counter, lka_steering_cmd_counter_last)
      steer_tick == ~skip /\ in.frame % STEER_STEP = 0
      lkas_enabled == LkasEnabled(in.enabled, in)
      new_steer == RoundDiv(in.steer * STEER_MAX * in.lane_change_steer_factor, 1000000)
      apply_steer == IF lkas_enabled
                     THEN apply_std_steer_torque_limits(new_steer, apply_steer_last)
                     ELSE 0
      steer_frames == IF steer_tick
                      THEN <<Frame("steering", SteerIdx(in.lka_steering_cmd_counter),
                                   apply_steer, lkas_enabled, FALSE)>>
                      ELSE << >>
      \* lines 107-223: gas/regen prep
      slot == in.frame % 4 = 0
      lg0 == IF ~slot
            THEN [apply_gas |-> apply_gas, apply_brake |-> apply_brake,
                  one_pedal_pid |-> one_pedal_pid, one_pedal_decel |-> one_pedal_decel,
                  one_pedal_decel_in |-> one_pedal_decel_in, no_pitch_apply_gas |-> 0,
                  branch |-> "none"]
            ELSE IF ~in.enabled \/ in.pause_long_on_gas_press
            THEN DisabledBranch(in.aEgo)
            ELSE EnabledBranch(in, one_pedal_pid, one_pedal_decel, one_pedal_decel_in,
                               lead_accel_last_t)
  IN
  \E lg \in {lg0} :
  \E lf \in {LongFrames(in.enabled, in, lg.apply_brake, lg.apply_gas, lg.no_pitch_apply_gas)} :
  LET exc == lg.branch = "raised"
      long_frames == IF slot THEN lf.frames ELSE << >>
      resume_button == slot /\ lf.resume_button
      \* lines 287-294: the dashboard frame carries resume_button_pressed and clears it
      dash_frames == IF slot
                     THEN <<Frame("acc_dashboard", 0, 0, in.enabled,
                                  CS.resume_button_pressed \/ resume_button)>>
                     ELSE << >>
      icon == LkaIconStatus(in)
      icon_send == in.frame % CAMERA_KEEPALIVE_STEP = 0 \/ icon # lka_icon_status_last
      icon_frames == IF icon_send
                     THEN <<Frame("lka_icon", 0, 0, icon[1], icon[2])>> ELSE << >>
      enabled_slot == slot /\ lg.branch \notin {"disabled", "raised"}
  IN  /\ lka_steering_cmd_counter_last' =
           IF skip THEN in.lka_steering_cmd_counter ELSE lka_steering_cmd_counter_last
      /\ apply_steer_last' = IF steer_tick THEN apply_steer ELSE apply_steer_last
      /\ steer_rate_limited' = IF steer_tick /\ lkas_enabled THEN new_steer # apply_steer
                               ELSE steer_rate_limited
      /\ steer_idx_hist' =
           IF steer_tick /\ ~exc
           THEN (IF steer_idx_hist = << >> THEN << >> ELSE <<Last(steer_idx_hist)>>)
                \o <<[idx |-> SteerIdx(in.lka_steering_cmd_counter),
                       lb |-> in.lka_steering_cmd_counter]>>
           ELSE steer_idx_hist
      /\ pre' = Snapshot
      /\ apply_gas' = lg.apply_gas
      /\ apply_brake' = lg.apply_brake
      /\ one_pedal_pid' = lg.one_pedal_pid
      /\ one_pedal_decel' = lg.one_pedal_decel
      /\ one_pedal_decel_in' = lg.one_pedal_decel_in
      /\ lead_accel_last_t' = lead_accel_last_t
      /\ long_branch' = lg.branch
      /\ raised' = exc
      /\ cin' = in
      /\ ncalls' = ncalls + 1
      /\ IF exc
         THEN /\ can_sends' = << >>
              /\ CS' = CS
              /\ lka_icon_status_last' = lka_icon_status_last
         ELSE /\ can_sends' = steer_frames \o long_frames \o dash_frames
                              \o AdasFrames(in) \o icon_frames
              /\ lka_icon_status_last' = IF icon_send THEN icon ELSE lka_icon_status_last
              /\ CS' = [brake_cmd |-> IF slot THEN lg.apply_brake ELSE CS.brake_cmd,
                        apply_brake_percent |->
                          ApplyBrakePercent(in, lg.apply_brake, lg.apply_gas,
                                            CS.apply_brake_percent),
                        autoHoldActivated |->
                          IF slot THEN lf.autoHoldActivated ELSE CS.autoHoldActivated,
                        resume_button_pressed |->
                          IF slot THEN FALSE ELSE CS.resume_button_pressed,
                        resume_required |->
                          CS.resume_required \/ (slot /\ lf.resume_required),
                        one_pedal_mode_active_last |->
                          IF enabled_slot THEN in.one_pedal_mode_active
                          ELSE CS.one_pedal_mode_active_last,
                        coast_one_pedal_mode_active_last |->
                          IF enabled_slot THEN in.coast_one_pedal_mode_active
                          ELSE CS.coast_one_pedal_mode_active_last]

\* ---- the arguments update() is called with ----
Frames == 0..MaxFrame
Slots == {f \in Frames : f % 4 = 0}

\* a quiet call: disabled, driving at 12 m/s, no lead, nothing pressed
CS0 ==
  [frame |-> 0, enabled |-> FALSE, lka_steering_cmd_counter |-> 0,
   pause_long_on_gas_press |-> FALSE, lkMode |-> TRUE, steerFault |-> FALSE,
   vEgo |-> 12000, lane_change_steer_factor |-> 1000, steer |-> 0, aEgo |-> 0,
   accel |-> 0, accelPitchCompensated |-> 0, t |-> 5000,
   one_pedal_mode_active |-> FALSE, coast_one_pedal_mode_active |-> FALSE,
   one_pedal_mode_op_braking_allowed |-> FALSE, one_pedal_brake_mode |-> 0,
   angle_steers |-> 0, pitch |-> 0, gear_shifter_ev |-> 0,
   one_pedal_dl_coasting_enabled |-> FALSE, engineRPM |-> 0, pid_out |-> 0,
   coasting_lead_d |-> 0, coasting_lead_v |-> 0, tr |-> 1800,
   coasting_enabled |-> FALSE, no_friction_braking |-> FALSE,
   coasting_long_plan |-> "lead0", speed_limit_active |-> FALSE, speed_limit |-> 0,
   v_cruise_kph |-> 40, coasting_brake_over_speed_enabled |-> FALSE,
   showBrakeIndicator |-> FALSE, cruise_enabled |-> FALSE, is_ev |-> TRUE,
   out_brake |-> 0, hvb_percent |-> 0, cruiseMain |-> TRUE, autoHold |-> FALSE,
   autoHoldActive |-> FALSE, gasPressed |-> FALSE, gearShifter |-> "drive",
   regenPaddlePressed |-> FALSE, pcm_acc_status |-> "active", do_sng |-> FALSE,
   hud_alert |-> "none", lkas_status |-> 0]

\* steering calls: any frame, any loopback counter, with and without a torque request
SteerInputs ==
  {[CS0 EXCEPT !.frame = x[1], !.lka_steering_cmd_counter = x[2],
               !.enabled = x[3][1], !.steer = x[3][2], !.lkas_status = x[3][3]] :
     x \in (0..MaxSteerFrame) \X (0..3)
           \X {<<FALSE, 0, 0>>, <<TRUE, 0, 1>>, <<TRUE, 1000, 1>>, <<TRUE, -1000, 0>>}}

\* disabled or paused slots, whatever the one-pedal, coasting and lead inputs
DisabledInputs ==
  {[CS0 EXCEPT !.frame = x[1], !.enabled = x[2][1], !.pause_long_on_gas_press = x[2][2],
               !.aEgo = x[3], !.one_pedal_mode_active = x[4],
               !.coast_one_pedal_mode_active = x[4], !.coasting_enabled = x[4],
               !.coasting_lead_d = IF x[4] THEN 10000 ELSE 0,
               !.autoHold = x[5], !.autoHoldActive = x[5],
               !.vEgo = IF x[5] THEN 0 ELSE 12000,
               !.pcm_acc_status = IF x[5] THEN "standstill" ELSE "active"] :
     x \in Slots \X {<<FALSE, FALSE>>, <<TRUE, TRUE>>, <<FALSE, TRUE>>}
           \X {-4000, 0} \X BOOLEAN \X BOOLEAN}

\* calls between the 25 Hz slots
NonSlotInputs ==
  {[CS0 EXCEPT !.frame = x[1], !.enabled = x[2], !.aEgo = -1000] :
     x \in (Frames \ Slots) \X BOOLEAN}

\* enabled slots in one-pedal mode
OnePedalInputs ==
  {[CS0 EXCEPT !.frame = 4, !.enabled = TRUE, !.one_pedal_mode_active = TRUE,
               !.one_pedal_mode_op_braking_allowed = x[1], !.t = IF x[1] THEN 500 ELSE 5000,
               !.one_pedal_brake_mode = x[2][1], !.angle_steers = x[2][2],
               !.vEgo = x[3], !.aEgo = x[4][1], !.accel = x[4][2],
               !.accelPitchCompensated = x[4][2], !.pid_out = x[5]] :
     x \in BOOLEAN \X {<<0, 0>>, <<2, 120>>} \X {1000, 10000}
           \X {<<-4000, -3000>>, <<0, 0>>} \X {-3500, -1100, 0}}

\* enabled slots in coast-one-pedal mode
CoastOnePedalInputs ==
  {[CS0 EXCEPT !.frame = 4, !.enabled = TRUE, !.coast_one_pedal_mode_active = TRUE,
               !.one_pedal_mode_op_braking_allowed = x[1],
               !.vEgo = x[2], !.aEgo = x[3][1], !.accel = x[3][2],
               !.accelPitchCompensated = x[3][2],
               !.gear_shifter_ev = x[4], !.one_pedal_dl_coasting_enabled = (x[4] = 4)] :
     x \in BOOLEAN \X {1000, 10000} \X {<<-4000, -3000>>, <<0, 0>>} \X {0, 4}}

\* enabled slots with one-pedal off: planner gas/brake, lead lockouts, coasting;
\* a lead is <<distance, speed, CS.tr>>
PlannerInputs ==
  {[CS0 EXCEPT !.frame = 4, !.enabled = TRUE, !.vEgo = 8000, !.aEgo = -1000,
               !.accel = x[1][1], !.accelPitchCompensated = x[1][2],
               !.coasting_lead_d = x[2][1], !.coasting_lead_v = x[2][2], !.tr = x[2][3],
               !.coasting_enabled = x[3][1], !.no_friction_braking = x[3][2],
               !.coasting_brake_over_speed_enabled = x[3][3],
               !.v_cruise_kph = IF x[3][3] THEN 20 ELSE 40,
               !.coasting_long_plan = x[4],
               !.pcm_acc_status = IF x[1][1] > 0 THEN "standstill" ELSE "active",
               !.do_sng = x[3][3]] :
     x \in {<<-2500, -3000>>, <<-500, -400>>, <<1000, 1000>>}
           \X {<<0, 0, 1800>>, <<15000, 4500, 1800>>, <<6000, 1000, 1800>>,
               <<15000, 4500, 0>>}
           \X {<<FALSE, FALSE, FALSE>>, <<TRUE, FALSE, FALSE>>, <<TRUE, FALSE, TRUE>>,
               <<FALSE, TRUE, FALSE>>}
           \X {"cruise", "lead0"}}

LongInputs ==
  DisabledInputs \cup NonSlotInputs \cup OnePedalInputs \cup CoastOnePedalInputs
  \cup PlannerInputs

\* the calls of a 100 Hz run at frame f: disabled and quiet with the loopback counter
\* still or advanced, auto-hold at rest, enabled with the planner braking, enabled in
\* one-pedal mode, and enabled behind a slow lead with CS.tr = 0
TickInputs(f) ==
  LET b == [CS0 EXCEPT !.frame = f]
  IN  {b,
       [b EXCEPT !.lka_steering_cmd_counter = 1],
       [b EXCEPT !.autoHold = TRUE, !.autoHoldActive = TRUE, !.vEgo = 0,
                 !.pcm_acc_status = "standstill"],
       [b EXCEPT !.enabled = TRUE, !.vEgo = 8000, !.aEgo = -1000, !.accel = -2500,
                 !.accelPitchCompensated = -3000, !.steer = 1000],
       [b EXCEPT !.enabled = TRUE, !.one_pedal_mode_active = TRUE, !.pid_out = -1100],
       [b EXCEPT !.enabled = TRUE, !.vEgo = 8000, !.coasting_lead_d = 15000,
                 !.coasting_lead_v = 4500, !.tr = 0]}

\* calls at and around a standstill: engaged or not, paused or not, the PCM at
\* standstill or active, the planner accelerating or not, stop-and-go supported or
\* not, at rest (auto-hold armed), creeping or driving, in a slot or between slots
ResumeInputs ==
  {[CS0 EXCEPT !.frame = x[1], !.enabled = x[2][1], !.pause_long_on_gas_press = x[2][2],
               !.pcm_acc_status = x[3], !.accel = x[4], !.accelPitchCompensated = x[4],
               !.do_sng = x[5], !.vEgo = x[6],
               !.autoHold = TRUE, !.autoHoldActive = TRUE] :
     x \in {4, 5} \X (BOOLEAN \X BOOLEAN) \X {"standstill", "active"} \X {-500, 1000}
           \X BOOLEAN \X {0, 1000, 8000}}

\* the one-pedal light braking scenarios: one-pedal mode 0 at 10 m/s, level road,
\* wheel straight, aEgo 0; enabled or not, op braking allowed or not, the PID
\* output, and the planner's acceleration
ScenarioInputs ==
  {[CS0 EXCEPT !.enabled = x[1], !.one_pedal_mode_active = TRUE,
               !.one_pedal_brake_mode = 0, !.vEgo = 10000, !.aEgo = 0, !.pitch = 0,
               !.angle_steers = 0, !.one_pedal_mode_op_braking_allowed = x[2],
               !.pid_out = x[3], !.accel = x[4], !.accelPitchCompensated = x[4]] :
     x \in BOOLEAN \X BOOLEAN \X {-2000, -1100, 0} \X {-2500, 0}}

\* ---- CarController.__init__ and the fields of a fresh CarState ----
CCInit ==
  /\ apply_steer_last = 0
  /\ lka_steering_cmd_counter_last = -1
  /\ lka_icon_status_last = <<FALSE, FALSE>>
  /\ steer_rate_limited = FALSE
  /\ one_pedal_pid = "reset"
  /\ one_pedal_decel = 0
  /\ one_pedal_decel_in = 0
  /\ lead_accel_last_t = 0
  /\ apply_gas = 0
  /\ apply_brake = 0
  /\ CS = [brake_cmd |-> 0, apply_brake_percent |-> 0, autoHoldActivated |-> FALSE,
           resume_button_pressed |-> FALSE, resume_required |-> FALSE,
           one_pedal_mode_active_last |-> FALSE,
           coast_one_pedal_mode_active_last |-> FALSE]
  /\ can_sends = << >>
  /\ raised = FALSE
  /\ cin = CS0
  /\ long_branch = "none"
  /\ steer_idx_hist = << >>
  /\ pre = Snapshot
  /\ ncalls = 0

\* ===================================================================
\*  Radar fusion: selfdrive/controls/radard.py
\*  (distances in cm, speeds in cm/s, probabilities in 1/100, times in ms)
\* ===================================================================

\* ---- module constants, lines 19-29 ----
LEAD_PATH_YREL_MAX_BP == <<0>>
LEAD_PATH_YREL_MAX_V == <<120>>
LEAD_PATH_YREL_LOW_TOL == 50
LEAD_PATH_DREL_MIN == 6000
LEAD_MIN_SMOOTHING_DISTANCE == 14500
LEAD_MAX_DISTANCE == 15200
LEAD_MAX_Y_REL == 1200
MIN_LANE_PROB == 60
LEAD_PLUS_ONE_MIN_REL_DIST_V == <<300, 600>>
LEAD_PLUS_ONE_MIN_REL_DIST_BP == <<0, 10000>>

\* selfdrive.config.RADAR_TO_CAMERA and lane_planner.TRAJECTORY_SIZE are not
\* among the sources; the polylines of the model are kept to three points
RADAR_TO_CAMERA == 152
TRAJECTORY_SIZE == 3

\* CP.radarTimeStep in ms and RI.delay, the arguments of RadarD(...) at line 464
RADAR_TS == 50
Delay == 1

\* radar_helpers._LEAD_ACCEL_TAU
LEAD_ACCEL_TAU == 150

\* ---- lead records ----
\* every lead is held with all its fields; cid names the cluster (its track id)
\* the lead was read from, 0 when it was read from no cluster
LeadRecord(status, source, checkSource, radar, dRel, yRel, vRel, vLead, vLeadK, aLeadK, aLeadTau, modelProb, cid) ==
  [status |-> status, source |-> source, checkSource |-> checkSource, radar |-> radar,
   dRel |-> dRel, yRel |-> yRel, vRel |-> vRel, vLead |-> vLead, vLeadK |-> vLeadK,
   aLeadK |-> aLeadK, aLeadTau |-> aLeadTau, modelProb |-> modelProb, cid |-> cid,
   dPath |-> 0]

\* line 230: {'status': False, 'source': 'radar'}
NoLead == LeadRecord(FALSE, "radar", "", FALSE, 0, 0, 0, 0, 0, 0, 0, 0, 0)

\* radar_helpers.Cluster.get_RadarState of a cluster of one track
get_RadarState(c, model_prob, source, checkSource) ==
  LeadRecord(TRUE, source, checkSource, TRUE, c.dRel, c.yRel, c.vRel, c.vLead,
             c.vLeadK, c.aLeadK, c.aLeadTau, model_prob, c.id)

\* radar_helpers.Cluster.get_RadarState_from_vision
get_RadarState_from_vision(lead_msg, v_ego) ==
  LeadRecord(TRUE, "vision", "modelLead", FALSE, lead_msg.x - RADAR_TO_CAMERA,
             -lead_msg.y, lead_msg.v - v_ego, lead_msg.v, lead_msg.v, 0,
             LEAD_ACCEL_TAU, lead_msg.prob, 0)

\* radar_helpers.Cluster.potential_low_speed_lead
potential_low_speed_lead(c, v_ego) ==
  Abs(c.yRel) < 150 /\ v_ego < 400 /\ c.dRel < 2500

\* ---- match_vision_to_cluster, lines 52-73 ----
\* max(clusters, key=prob) with prob a product of exp(-|delta| / b): the first
\* cluster with the least sum of |delta| / b, here times the product of the b's
VisionCost(v_ego, lead, c) ==
  LET bx == Max(lead.xStd, 1)
      by == Max(lead.yStd, 1)
      bv == Max(lead.vStd, 1)
  IN  Abs(c.dRel - (lead.x - RADAR_TO_CAMERA)) * by * bv
      + Abs(c.yRel + lead.y) * bx * bv
      + Abs(c.vRel + v_ego - lead.v) * bx * by

RECURSIVE BestVisionCluster(_, _, _, _, _)
BestVisionCluster(v_ego, lead, clusters, i, best) ==
  IF i > Len(clusters) THEN clusters[best]
  ELSE BestVisionCluster(v_ego, lead, clusters, i + 1,
         IF VisionCost(v_ego, lead, clusters[i]) < VisionCost(v_ego, lead, clusters[best])
         THEN i ELSE best)

\* line 68
DistSane(lead, c) ==
  LET offset_vision_dist == lead.x - RADAR_TO_CAMERA
  IN  4 * Abs(c.dRel - offset_vision_dist) < Max(offset_vision_dist, 4 * 500)

\* line 69
VelSane(v_ego, lead, c) ==
  Abs(c.vRel + v_ego - lead.v) < 1000 \/ v_ego + c.vRel > 300

\* lines 52-73 without the gates of lines 68-70
match_vision_to_cluster_NoGate(v_ego, lead, clusters) ==
  LET c == BestVisionCluster(v_ego, lead, clusters, 2, 1)
  IN  [found |-> TRUE, c |-> c]

\* found is FALSE for None
match_vision_to_cluster(v_ego, lead, clusters) ==
  LET c == BestVisionCluster(v_ego, lead, clusters, 2, 1)
  IN  [found |-> DistSane(lead, c) /\ VelSane(v_ego, lead, c), c |-> c]

\* ---- the candidates of the path and lane-line matches ----
\* lines 84-86 and 136-138: clusters in range, each with its lateral deviation
RECURSIVE CloseClusters(_, _, _, _)
CloseClusters(clusters, xs, ys, i) ==
  IF i > Len(clusters) THEN << >>
  ELSE LET c == clusters[i]
           keep == /\ c.dRel <= Min(Last(xs), LEAD_MAX_DISTANCE)
                   /\ c.dRel >= LEAD_PATH_DREL_MIN
                   /\ Abs(c.yRel) <= LEAD_MAX_Y_REL
       IN  (IF keep THEN <<[c |-> c, dev |-> Abs(-c.yRel - interp(c.dRel, xs, ys))]>>
            ELSE << >>)
           \o CloseClusters(clusters, xs, ys, i + 1)

\* lines 87 and 139: those within the tolerance ...
NearPath(cands) ==
  SelectSeq(cands, LAMBDA e :
    e.dev <= interp(e.c.dRel, LEAD_PATH_YREL_MAX_BP, LEAD_PATH_YREL_MAX_V))

\* sorted(..., key=...) is stable: an insertion sort of <<k, v>> records by k
RECURSIVE InsertByK(_, _)
InsertByK(s, e) ==
  IF s = << >> THEN <<e>>
  ELSE IF e.k < Last(s).k
       THEN InsertByK(SubSeq(s, 1, Len(s) - 1), e) \o <<Last(s)>>
       ELSE s \o <<e>>

RECURSIVE SortByK(_)
SortByK(s) ==
  IF s = << >> THEN << >>
  ELSE InsertByK(SortByK(SubSeq(s, 1, Len(s) - 1)), Last(s))

Unkeyed(s) == [i \in 1..Len(s) |-> s[i].v]

\* ... sorted by deviation
SortByDev(s) ==
  Unkeyed(SortByK([i \in 1..Len(s) |-> [k |-> s[i].dev, v |-> s[i]]]))

\* the scan stopping at the first cluster that does not replace the selection
RECURSIVE MiddleScan_StopAtFirst(_, _, _)
MiddleScan_StopAtFirst(s, i, cur) ==
  IF i > Len(s) THEN cur
  ELSE IF s[i].dev <= LEAD_PATH_YREL_LOW_TOL /\ s[i].c.dRel < cur.c.dRel
       THEN MiddleScan_StopAtFirst(s, i + 1, s[i])
       ELSE cur

\* lines 92-99 and 144-151: the scan for the lead closest to the middle
RECURSIVE MiddleScan(_, _, _)
MiddleScan(s, i, cur) ==
  IF i > Len(s) THEN cur
  ELSE IF s[i].dev <= LEAD_PATH_YREL_LOW_TOL
       THEN MiddleScan(s, i + 1, IF s[i].c.dRel < cur.c.dRel THEN s[i] ELSE cur)
       ELSE cur

\* line 103: the model path is no use for very slow leads
PathVelSane(v_ego, c) == v_ego + c.vRel > 800

\* ---- match_model_path_to_cluster, lines 76-107 ----
match_model_path_to_cluster(v_ego, md, clusters) ==
  IF ~md.present \/ Len(md.position_x) # TRAJECTORY_SIZE
     \/ Last(md.position_x) < LEAD_PATH_DREL_MIN
  THEN [found |-> FALSE, c |-> "none"]
  ELSE LET s == SortByDev(NearPath(CloseClusters(clusters, md.position_x,
                                                 md.position_y, 1)))
       IN  IF s = << >> THEN [found |-> FALSE, c |-> "none"]
           ELSE LET c == MiddleScan(s, 2, s[1]).c
                IN  [found |-> PathVelSane(v_ego, c), c |-> c]

\* lines 119-130 and 170-181: the lane centre c_y from one or both lane lines;
\* ok is FALSE when neither line is probable enough
LaneCenter(md, lane_width) ==
  IF md.l_prob > MIN_LANE_PROB /\ md.r_prob > MIN_LANE_PROB
  THEN [ok |-> TRUE,
        y |-> [i \in 1..Len(md.lll_y) |-> RoundDiv(md.lll_y[i] + md.rll_y[i], 2)]]
  ELSE IF md.l_prob > MIN_LANE_PROB
  THEN [ok |-> TRUE,
        y |-> [i \in 1..Len(md.lll_y) |-> md.lll_y[i] + RoundDiv(lane_width, 2)]]
  ELSE IF md.r_prob > MIN_LANE_PROB
  THEN [ok |-> TRUE,
        y |-> [i \in 1..Len(md.rll_y) |-> md.rll_y[i] - RoundDiv(lane_width, 2)]]
  ELSE [ok |-> FALSE, y |-> << >>]

\* line 154
LaneVelSane(v_ego, c) == v_ego + c.vRel > -50

\* ---- match_model_lanelines_to_cluster, lines 110-158 ----
match_model_lanelines_to_cluster(v_ego, md, lane_width, clusters) ==
  IF ~md.present THEN [found |-> FALSE, c |-> "none"]
  ELSE IF lane_width < 200 \/ Len(clusters) = 0 \/ md.n_lane_lines < 4
          \/ Len(md.ll_x) # TRAJECTORY_SIZE
  THEN [found |-> FALSE, c |-> "none"]
  ELSE LET c_y == LaneCenter(md, lane_width)
       IN  IF ~c_y.ok THEN [found |-> FALSE, c |-> "none"]
           ELSE LET s == SortByDev(NearPath(CloseClusters(clusters, md.ll_x, c_y.y, 1)))
                IN  IF s = << >> THEN [found |-> FALSE, c |-> "none"]
                    ELSE LET c == MiddleScan(s, 2, s[1]).c
                         IN  [found |-> LaneVelSane(v_ego, c), c |-> c]

\* ---- get_path_adjacent_leads, lines 161-220 ----
\* line 196 reads md_x[-1]: an IndexError when the model's position is empty
PathAdjacentRaises(md, clusters) ==
  Len(clusters) > 0 /\ Len(md.position_x) = 0

\* lines 165-183: c_y, or None
AdjacentLaneCenter(md, lane_width) ==
  IF md.present /\ lane_width > 0 /\ md.n_lane_lines = 4
     /\ Len(md.ll_x) = TRAJECTORY_SIZE
  THEN LaneCenter(md, lane_width)
  ELSE [ok |-> FALSE, y |-> << >>]

\* lines 196-209: the lead of one cluster, with its dPath
AdjacentLead(c, md, c_y) ==
  LET md_x == md.position_x
      by_path == c.dRel <= Last(md_x)
                 \/ (c_y.ok /\ Last(md_x) - c.dRel < Last(md.ll_x) - c.dRel)
      dPath == IF by_path THEN -c.yRel - interp(c.dRel, md_x, md.position_y)
               ELSE IF c_y.ok THEN -c.yRel - interp(c.dRel, md.ll_x, c_y.y)
               ELSE -c.yRel
      checkSource == IF by_path THEN "modelPath"
                     ELSE IF c_y.ok THEN "modelLaneLines" ELSE "lowSpeedOverride"
      source == IF c.dRel > 14500 THEN "vision" ELSE "radar"
  IN  [get_RadarState(c, 0, source, checkSource) EXCEPT !.dPath = dPath]

\* lines 194 and 211-216: abs(dPath) < lane_width / 2
AdjacentSide(ld, lane_width) ==
  IF 2 * Abs(ld.dPath) < lane_width /\ ld.vLeadK > -100 THEN "center"
  ELSE IF ld.dPath < 0 THEN "left" ELSE "right"

\* leads_x[abs(dPath)] = ld: a later lead takes the place of one with the same key
DictPut(d, ld) ==
  IF \E i \in 1..Len(d) : Abs(d[i].dPath) = Abs(ld.dPath)
  THEN [i \in 1..Len(d) |-> IF Abs(d[i].dPath) = Abs(ld.dPath) THEN ld ELSE d[i]]
  ELSE d \o <<ld>>

RECURSIVE SideLeads(_, _, _, _, _, _)
SideLeads(side, clusters, md, c_y, lane_width, i) ==
  IF i = 0 THEN << >>
  ELSE LET ld == AdjacentLead(clusters[i], md, c_y)
           d == SideLeads(side, clusters, md, c_y, lane_width, i - 1)
       IN  IF AdjacentSide(ld, lane_width) = side THEN DictPut(d, ld) ELSE d

\* sorted(..., key=abs(dPath)) and sorted(..., key=dRel)
SortByAbsDPath(d) ==
  Unkeyed(SortByK([i \in 1..Len(d) |-> [k |-> Abs(d[i].dPath), v |-> d[i]]]))

SortByDRel(d) ==
  Unkeyed(SortByK([i \in 1..Len(d) |-> [k |-> d[i].dRel, v |-> d[i]]]))

\* [ll, lc, lr] as a record
get_path_adjacent_leads(v_ego, md, lane_width, clusters) ==
  IF Len(clusters) = 0 THEN [ll |-> << >>, lc |-> << >>, lr |-> << >>]
  ELSE LET c_y == AdjacentLaneCenter(md, lane_width)
           n == Len(clusters)
       IN  [ll |-> SortByAbsDPath(SideLeads("left", clusters, md, c_y, lane_width, n)),
            lc |-> SortByDRel(SideLeads("center", clusters, md, c_y, lane_width, n)),
            lr |-> SortByAbsDPath(SideLeads("right", clusters, md, c_y, lane_width, n))]

\* ---- get_lead, lines 223-257 ----
\* line 225 and 233: a vision hypothesis the function trusts
VisionConfident(ready, lead_msg) == ready /\ lead_msg.present /\ lead_msg.prob > 50

\* lines 236-245: no vision lead; the path match, then the lane-line match
PathThenLaneLines(v_ego, clusters, md, lane_width) ==
  IF ~md.present THEN NoLead
  ELSE LET p == match_model_path_to_cluster(v_ego, md, clusters)
       IN  IF p.found THEN get_RadarState(p.c, 0, "vision", "modelPath")
           ELSE LET l == match_model_lanelines_to_cluster(v_ego, md, lane_width, clusters)
                IN  IF l.found THEN get_RadarState(l.c, 0, "vision", "modelLaneLines")
                    ELSE NoLead

\* lines 225-245 with the path and lane-line matches tried before the vision-only lead
BaseLead_PathFirst(v_ego, ready, clusters, lead_msg, md, lane_width) ==
  LET m == IF Len(clusters) > 0 /\ VisionConfident(ready, lead_msg)
           THEN match_vision_to_cluster(v_ego, lead_msg, clusters)
           ELSE [found |-> FALSE, c |-> "none"]
      p == PathThenLaneLines(v_ego, clusters, md, lane_width)
  IN  IF m.found THEN get_RadarState(m.c, lead_msg.prob, "radar", "modelLead")
      ELSE IF p.status THEN p
      ELSE IF VisionConfident(ready, lead_msg)
      THEN get_RadarState_from_vision(lead_msg, v_ego)
      ELSE NoLead

\* lines 225-245: the lead before the low-speed override
BaseLead(v_ego, ready, clusters, lead_msg, md, lane_width) ==
  LET m == IF Len(clusters) > 0 /\ VisionConfident(ready, lead_msg)
           THEN match_vision_to_cluster(v_ego, lead_msg, clusters)
           ELSE [found |-> FALSE, c |-> "none"]
  IN  IF m.found THEN get_RadarState(m.c, lead_msg.prob, "radar", "modelLead")
      ELSE IF VisionConfident(ready, lead_msg)
      THEN get_RadarState_from_vision(lead_msg, v_ego)
      ELSE PathThenLaneLines(v_ego, clusters, md, lane_width)

\* min(low_speed_clusters, key=dRel): the first of the closest
RECURSIVE ClosestCluster(_, _, _)
ClosestCluster(s, i, best) ==
  IF i > Len(s) THEN s[best]
  ELSE ClosestCluster(s, i + 1, IF s[i].dRel < s[best].dRel THEN i ELSE best)

\* lines 248-255
LowSpeedOverride(v_ego, clusters, lead_dict) ==
  LET low_speed_clusters ==
        SelectSeq(clusters, LAMBDA c : potential_low_speed_lead(c, v_ego))
  IN  IF Len(low_speed_clusters) > 0
      THEN LET closest_cluster == ClosestCluster(low_speed_clusters, 2, 1)
           IN  IF ~lead_dict.status \/ closest_cluster.dRel < lead_dict.dRel
               THEN get_RadarState(closest_cluster, 0, lead_dict.source,
                                   "lowSpeedOverride")
               ELSE lead_dict
      ELSE lead_dict

get_lead(v_ego, ready, clusters, lead_msg, low_speed_override, md, lane_width) ==
  LET lead_dict == BaseLead(v_ego, ready, clusters, lead_msg, md, lane_width)
  IN  IF low_speed_override THEN LowSpeedOverride(v_ego, clusters, lead_dict)
      ELSE lead_dict

\* ---- common.filter_simple.FirstOrderFilter ----
\* FirstOrderFilter(0., 0., dt, initialized=False)
NewFilter == [x |-> 0, rc |-> 0, initialized |-> FALSE]

\* update_alpha(rc): alpha = dt / (rc + dt); the filter is held with its rc
update_alpha(f, rc) == [f EXCEPT !.rc = rc]

\* update(x): x = (1 - alpha) * x + alpha * x_new once initialized, x_new before
FilterUpdate(f, x) ==
  IF f.initialized
  THEN [f EXCEPT !.x = RoundDiv(f.rc * f.x + RADAR_TS * x, f.rc + RADAR_TS)]
  ELSE [f EXCEPT !.x = x, !.initialized = TRUE]

\* ---- LongRangeLead, lines 259-316 ----
DREL_BP == <<LEAD_MIN_SMOOTHING_DISTANCE, LEAD_MAX_DISTANCE>>
D_DREL_MAX_V == <<800, 2000>>
ALPHA_V == <<0, 1000>>
D_YREL_MAX == 80

LRLFields == {"dRel", "vRel", "vLead", "vLeadK", "aLeadK", "aLeadTau"}

\* lines 265-272; has_last is FALSE while lead_last is None
NewLongRangeLead ==
  [has_last |-> FALSE, lead_last |-> NoLead, f |-> [k \in LRLFields |-> NewFilter]]

\* lines 274-281
LRLReset(lr) ==
  [lr EXCEPT !.has_last = FALSE, !.lead_last = NoLead,
             !.f = [k \in LRLFields |-> [lr.f[k] EXCEPT !.initialized = FALSE]]]

\* the test of lines 287 and 308 treats every source but 'modelLead' alike
IsModelLead_Never(lead) == FALSE

\* lines 287 and 308: lead['checkSource'] == 'modelLead'
IsModelLead(lead) == lead.checkSource = "modelLead"

\* lines 287-290 without the test of the distance at line 287
LRLResetTest_NoNearReset(lr, lead) ==
  \/ IsModelLead(lead)
  \/ /\ lr.has_last
     /\ lr.lead_last.status
     /\ \/ Abs(lr.lead_last.dRel - lead.dRel) > interp(lead.dRel, DREL_BP, D_DREL_MAX_V)
        \/ Abs(lr.lead_last.yRel - lead.yRel) > D_YREL_MAX

\* lines 287-290: the reset of a lead with status
LRLResetTest(lr, lead) ==
  \/ IsModelLead(lead)
  \/ lead.dRel < DREL_BP[1]
  \/ /\ lr.has_last
     /\ lr.lead_last.status
     /\ \/ Abs(lr.lead_last.dRel - lead.dRel) > interp(lead.dRel, DREL_BP, D_DREL_MAX_V)
        \/ Abs(lr.lead_last.yRel - lead.yRel) > D_YREL_MAX

\* lines 292-304: the six filters take the lead's values
LRLFilter(lr, lead) ==
  LET alpha == interp(lead.dRel, DREL_BP, ALPHA_V)
  IN  [lr EXCEPT !.f = [k \in LRLFields |->
                          FilterUpdate(update_alpha(lr.f[k], alpha), lead[k])]]

\* lines 308-314: the returned lead
LRLOverwrite(lr, lead) ==
  IF lead.status /\ ~IsModelLead(lead)
  THEN [lead EXCEPT !.dRel = lr.f["dRel"].x, !.vRel = lr.f["vRel"].x,
                    !.vLead = lr.f["vLead"].x, !.vLeadK = lr.f["vLeadK"].x,
                    !.aLeadK = lr.f["aLeadK"].x, !.aLeadTau = lr.f["aLeadTau"].x]
  ELSE lead

\* lines 283-316 with lead_last a copy of the argument taken at line 306, before
\* lines 308-314 write the filtered values
LRLUpdate_LastIsCopy(lr, lead) ==
  LET reset == ~lead.status \/ LRLResetTest(lr, lead)
      lr1 == IF reset THEN LRLReset(lr) ELSE lr
      lr2 == IF lead.status THEN LRLFilter(lr1, lead) ELSE lr1
      out == LRLOverwrite(lr2, lead)
  IN  [lr |-> [lr2 EXCEPT !.has_last = TRUE, !.lead_last = lead],
       lead |-> out, reset |-> reset]

\* lines 283-316: update(lead) as [lr, lead, reset]; lead_last is the very
\* dictionary that is returned, so it holds what lines 309-314 have written;
\* reset tells whether reset() was called
LRLUpdate(lr, lead) ==
  LET reset == ~lead.status \/ LRLResetTest(lr, lead)
      lr1 == IF reset THEN LRLReset(lr) ELSE lr
      lr2 == IF lead.status THEN LRLFilter(lr1, lead) ELSE lr1
      out == LRLOverwrite(lr2, lead)
  IN  [lr |-> [lr2 EXCEPT !.has_last = TRUE, !.lead_last = out],
       lead |-> out, reset |-> reset]

\* ---- radar_helpers.Track, with the Kalman filter left out ----
\* Track(v_lead, kalman_params)
NewTrack(v_lead) ==
  [cnt |-> 0, dRel |-> 0, yRel |-> 0, vRel |-> 0, vLead |-> v_lead,
   vLeadK |-> v_lead, aLeadK |-> 0, aLeadTau |-> LEAD_ACCEL_TAU, measured |-> FALSE]

\* Track.update(d_rel, y_rel, v_rel, v_lead, measured)
TrackUpdate(t, pt, v_lead) ==
  [t EXCEPT !.dRel = pt.dRel, !.yRel = pt.yRel, !.vRel = pt.vRel, !.vLead = v_lead,
            !.vLeadK = v_lead, !.measured = pt.measured, !.cnt = t.cnt + 1]

\* a cluster of one track; id is the track's id
ClusterOf(id, t) ==
  [id |-> id, dRel |-> t.dRel, yRel |-> t.yRel, vRel |-> t.vRel, vLead |-> t.vLead,
   vLeadK |-> t.vLeadK, aLeadK |-> t.aLeadK, aLeadTau |-> t.aLeadTau]

VARIABLES
  tracks,                     \* RadarD.tracks: track id -> Track
  v_ego, v_ego_hist, ready,
  extended_radar_enabled, long_range_leads_enabled,
  lead_one_lr, lead_two_lr, lead_one_plus_lr,
  radarState,                 \* the message of the last update
  clusters,                   \* the clusters of the last update (local)
  rd_in,                      \* the arguments of the last update
  rd_raised,                  \* the last update raised
  rd_calls,
  pre_rd,                     \* tracks before the last update (history)
  gone,                       \* ids removed from tracks in an earlier update (history)
  ego_log,                    \* the ego speeds of the carState updates so far (history)
  gl_in, gl_out, gl_calls,    \* get_lead: the arguments and the result of the last call
  lrl, lrl_in, lrl_out,       \* a LongRangeLead, the argument and the result of its last update
  lrl_pre, lrl_calls,         \* the LongRangeLead before that update (history)
  lrl_in_pre                  \* the argument of the update before the last one (history)

rd_vars ==
  <<tracks, v_ego, v_ego_hist, ready, extended_radar_enabled, long_range_leads_enabled,
    lead_one_lr, lead_two_lr, lead_one_plus_lr, radarState, clusters, rd_in, rd_raised,
    rd_calls, pre_rd, gone, ego_log>>

gl_vars == <<gl_in, gl_out, gl_calls>>

lrl_vars == <<lrl, lrl_in, lrl_out, lrl_pre, lrl_calls, lrl_in_pre>>

\* lines 350-352: ar_pts, trackId -> point; the last point of an id stays
ArPts(points) ==
  [id \in {points[i].trackId : i \in 1..Len(points)} |->
     points[CHOOSE i \in 1..Len(points) :
              /\ points[i].trackId = id
              /\ \A j \in (i + 1)..Len(points) : points[j].trackId # id]]

\* lines 355-357 left out: no track is removed
TracksKept_All(trks, ar_pts) == DOMAIN trks

\* lines 355-357: the ids of the tracks that stay
TracksKept(trks, ar_pts) == DOMAIN trks \cap DOMAIN ar_pts

\* lines 360-369
TracksUpdated(trks, ar_pts, v_ego_delayed) ==
  LET kept == TracksKept(trks, ar_pts)
  IN  [id \in kept \cup DOMAIN ar_pts |->
         IF id \in DOMAIN ar_pts
         THEN LET v_lead == ar_pts[id].vRel + v_ego_delayed
              IN  TrackUpdate(IF id \in kept THEN trks[id] ELSE NewTrack(v_lead),
                              ar_pts[id], v_lead)
         ELSE trks[id]]

\* line 371: sorted(self.tracks.keys())
RECURSIVE SortedIds(_)
SortedIds(S) ==
  IF S = {} THEN << >>
  ELSE LET m == CHOOSE x \in S : \A y \in S : x <= y
       IN  <<m>> \o SortedIds(S \ {m})

\* lines 371-390, for points more than 2.5 m apart: every track is a cluster
ClustersOf(trks) ==
  LET idens == SortedIds(DOMAIN trks)
  IN  [i \in 1..Len(idens) |-> ClusterOf(idens[i], trks[idens[i]])]

\* line 346 on a deque without maxlen
HistAppend_Unbounded(hist, v) == hist \o <<v>>

\* lines 346: deque(maxlen=delay+1).append
HistAppend(hist, v) ==
  IF Len(hist) = Delay + 1 THEN Tail(hist) \o <<v>> ELSE hist \o <<v>>

\* a vision lead hypothesis that is not there (lead_msg=None)
NoVision ==
  [present |-> FALSE, prob |-> 0, x |-> 0, y |-> 0, v |-> 0,
   xStd |-> 1, yStd |-> 1, vStd |-> 1]

\* md=None
NoModel ==
  [present |-> FALSE, position_x |-> << >>, position_y |-> << >>, n_lane_lines |-> 0,
   ll_x |-> << >>, lll_y |-> << >>, rll_y |-> << >>, l_prob |-> 0, r_prob |-> 0]

\* lines 421-426: the lead+1 car; [lr, lead, lc]
LeadOnePlus(lr, in, leadOne, lc) ==
  IF Abs(in.steeringAngleDeg) < 15 /\ leadOne.status /\ leadOne.modelProb > 50
  THEN LET check_dist == interp(leadOne.dRel, LEAD_PLUS_ONE_MIN_REL_DIST_BP,
                                LEAD_PLUS_ONE_MIN_REL_DIST_V)
           far == SelectSeq(lc, LAMBDA l : l.dRel > leadOne.dRel + check_dist)
       IN  IF Len(far) > 0
           THEN LET r == LRLUpdate(lr, far[1])
                IN  [lr |-> r.lr, lead |-> r.lead, lc |-> <<r.lead>> \o Tail(far)]
           ELSE [lr |-> lr, lead |-> NoLead, lc |-> far]
  ELSE [lr |-> lr, lead |-> NoLead, lc |-> lc]

\* ---- RadarD.update(sm, rr, enable_lead), lines 341-434 ----
RDUpdate(in) ==
  LET v_ego1 == IF in.cs_updated THEN in.vEgo ELSE v_ego
      hist1 == IF in.cs_updated THEN HistAppend(v_ego_hist, in.vEgo) ELSE v_ego_hist
      ready1 == ready \/ in.md_updated
      trks == TracksUpdated(tracks, ArPts(in.points), hist1[1])
      cl == ClustersOf(trks)
      md == in.md
      md_arg == IF long_range_leads_enabled THEN md ELSE NoModel
      two == Len(in.leadsV3) > 1
      fused == in.enable_lead /\ (two \/ long_range_leads_enabled)
      msg1 == IF two THEN in.leadsV3[1] ELSE NoVision
      msg2 == IF two THEN in.leadsV3[2] ELSE NoVision
      adjacent == in.enable_lead /\ extended_radar_enabled /\ ready1
      exc == adjacent /\ PathAdjacentRaises(md, cl)
  IN  \E one \in {IF fused
                  THEN LRLUpdate(lead_one_lr,
                                 get_lead(v_ego1, ready1, cl, msg1, TRUE, md_arg, in.laneWidth))
                  ELSE [lr |-> lead_one_lr, lead |-> NoLead, reset |-> FALSE]} :
      \E two_ \in {IF fused
                   THEN LRLUpdate(lead_two_lr,
                                  get_lead(v_ego1, ready1, cl, msg2, FALSE, md_arg, in.laneWidth))
                   ELSE [lr |-> lead_two_lr, lead |-> NoLead, reset |-> FALSE]} :
      \E adj \in {IF adjacent /\ ~exc
                  THEN get_path_adjacent_leads(v_ego1, md, in.laneWidth, cl)
                  ELSE [ll |-> << >>, lc |-> << >>, lr |-> << >>]} :
      \E plus \in {IF adjacent /\ ~exc
                   THEN LeadOnePlus(lead_one_plus_lr, in, one.lead, adj.lc)
                   ELSE [lr |-> lead_one_plus_lr, lead |-> NoLead, lc |-> << >>]} :
        /\ v_ego' = v_ego1
        /\ v_ego_hist' = hist1
        /\ ready' = ready1
        /\ tracks' = trks
        /\ clusters' = cl
        /\ lead_one_lr' = one.lr
        /\ lead_two_lr' = two_.lr
        /\ lead_one_plus_lr' = plus.lr
        /\ radarState' =
             IF exc THEN radarState
             ELSE [leadOne |-> one.lead, leadTwo |-> two_.lead, leadOnePlus |-> plus.lead,
                   leadsLeft |-> adj.ll, leadsCenter |-> plus.lc, leadsRight |-> adj.lr]
        /\ rd_raised' = exc
        /\ rd_in' = in
        /\ rd_calls' = rd_calls + 1
        /\ pre_rd' = [tracks |-> tracks, v_ego_hist |-> v_ego_hist,
                      lead_one_plus_lr |-> lead_one_plus_lr]
        /\ gone' = gone \cup (DOMAIN tracks \ DOMAIN trks)
        /\ ego_log' = IF in.cs_updated THEN Append(ego_log, in.vEgo) ELSE ego_log
        /\ UNCHANGED <<extended_radar_enabled, long_range_leads_enabled>>

\* ---- the arguments of the radar calls ----
\* a radar point of rr.points
Pt(trackId, dRel, yRel, vRel) ==
  [trackId |-> trackId, dRel |-> dRel, yRel |-> yRel, vRel |-> vRel, measured |-> TRUE]

\* a vision lead hypothesis of modelV2.leadsV3
Vision(prob, x, v) ==
  [present |-> TRUE, prob |-> prob, x |-> x, y |-> 0, v |-> v,
   xStd |-> 200, yStd |-> 100, vStd |-> 100]

\* a straight road: the path and both lane lines reach 160 m
MdLong ==
  [present |-> TRUE, position_x |-> <<0, 8000, 16000>>, position_y |-> <<0, 0, 0>>,
   n_lane_lines |-> 4, ll_x |-> <<0, 8000, 16000>>, lll_y |-> <<-180, -180, -180>>,
   rll_y |-> <<180, 180, 180>>, l_prob |-> 90, r_prob |-> 90]

\* the path ends at 40 m, the lane lines reach 160 m
MdShort == [MdLong EXCEPT !.position_x = <<0, 2000, 4000>>]

\* the lane lines are not seen
MdNoLanes == [MdLong EXCEPT !.l_prob = 10, !.r_prob = 10]

\* only the left lane line is seen
MdLeftLane == [MdShort EXCEPT !.r_prob = 10]

\* a model message never received: every list is empty
MdEmpty == [NoModel EXCEPT !.present = TRUE]

\* calls of RadarD.update
RDQuiet ==
  [cs_updated |-> FALSE, vEgo |-> 0, md_updated |-> FALSE, points |-> << >>,
   leadsV3 |-> << >>, md |-> MdEmpty, laneWidth |-> 360, steeringAngleDeg |-> 0,
   enable_lead |-> TRUE]

Readings ==
  {<< >>, <<Pt(7, 2000, 0, -200)>>, <<Pt(7, 1900, 0, -200)>>, <<Pt(9, 10000, 30, -200)>>,
   <<Pt(7, 2000, 0, -200), Pt(9, 10000, 30, -200)>>,
   <<Pt(7, 2000, 0, -200), Pt(8, 5000, 0, -200)>>}

RDInputs ==
  {[RDQuiet EXCEPT !.points = x[1], !.cs_updated = TRUE, !.vEgo = x[2],
                   !.md_updated = x[3],
                   !.leadsV3 = IF x[3] THEN <<Vision(90, 2152, 2800), Vision(30, 6000, 2800)>>
                               ELSE << >>,
                   !.md = IF x[3] THEN MdLong ELSE MdEmpty] :
     x \in Readings \X {300, 3000} \X BOOLEAN}
  \cup {[RDQuiet EXCEPT !.points = <<Pt(7, 2000, 0, -200)>>, !.md_updated = TRUE,
                        !.md = MdLong],
        [RDQuiet EXCEPT !.points = <<Pt(9, 10000, 30, -200)>>, !.enable_lead = FALSE],
        [RDQuiet EXCEPT !.points = <<Pt(7, 2000, 0, -200), Pt(9, 10000, 30, -200)>>,
                        !.cs_updated = TRUE, !.vEgo = 3000, !.md_updated = TRUE,
                        !.leadsV3 = <<Vision(90, 2152, 2800), Vision(90, 10152, 2800)>>,
                        !.md = MdLong, !.steeringAngleDeg = 20]}

\* calls of get_lead: clusters as RadarD builds them at the ego speed v
Cl(id, dRel, yRel, vRel, v) ==
  [id |-> id, dRel |-> dRel, yRel |-> yRel, vRel |-> vRel, vLead |-> vRel + v,
   vLeadK |-> vRel + v, aLeadK |-> 0, aLeadTau |-> LEAD_ACCEL_TAU]

ClusterLists(v) ==
  LET a == Cl(1, 2000, 0, -200, v)
      b == Cl(2, 4000, 0, -500, v)
      c == Cl(3, 10000, 30, -200, v)
      d == Cl(4, 9000, 10, -2500, v)
      e == Cl(5, 9500, 60, -100, v)
      f == Cl(6, 8000, 40, -200, v)
  IN  {<< >>, <<a>>, <<b>>, <<a, b>>, <<c>>, <<d>>, <<d, c>>, <<b, c>>, <<c, d, e>>,
       <<a, d>>, <<c, d, f>>}

GetLeadInputsAt(v) ==
  {[v_ego |-> v, ready |-> x[1], lead_msg |-> x[2], low_speed_override |-> x[3],
    md |-> x[4], clusters |-> x[5], lane_width |-> 360] :
     x \in BOOLEAN
           \X {NoVision, Vision(30, 4152, 2500), Vision(90, 4152, 2500),
               Vision(90, 8152, 2500)}
           \X BOOLEAN \X {NoModel, MdLong, MdShort, MdNoLanes, MdLeftLane}
           \X ClusterLists(v)}

GetLeadInputs == GetLeadInputsAt(300) \cup GetLeadInputsAt(3000)

\* calls of LongRangeLead.update: no lead, or a lead of any source near and far
LRLLeads ==
  {NoLead}
  \cup {LeadRecord(TRUE, "vision", x[1], TRUE, x[2], x[3][1], x[3][2], x[3][3], x[3][4],
                   x[3][5], x[3][6], 0, 7) :
          x \in {"modelLead", "modelPath", "lowSpeedOverride"}
                \X {2000, 14500, 14900, 15200, 15600, 17800}
                \X {<<0, -200, 2800, 2790, -50, 150>>, <<100, 300, 3300, 3310, 40, 120>>}}

\* ---- RadarD.__init__, lines 321-339 ----
NoTracks == [id \in {} |-> NewTrack(0)]

RDInit(ext) ==
  /\ tracks = NoTracks
  /\ v_ego = 0
  /\ v_ego_hist = <<0>>
  /\ ready = FALSE
  /\ extended_radar_enabled = ext
  /\ long_range_leads_enabled = extended_radar_enabled
  /\ lead_one_lr = NewLongRangeLead
  /\ lead_two_lr = NewLongRangeLead
  /\ lead_one_plus_lr = NewLongRangeLead
  /\ radarState = [leadOne |-> NoLead, leadTwo |-> NoLead, leadOnePlus |-> NoLead,
                   leadsLeft |-> << >>, leadsCenter |-> << >>, leadsRight |-> << >>]
  /\ clusters = << >>
  /\ rd_in = RDQuiet
  /\ rd_raised = FALSE
  /\ rd_calls = 0
  /\ pre_rd = [tracks |-> NoTracks, v_ego_hist |-> <<0>>,
               lead_one_plus_lr |-> NewLongRangeLead]
  /\ gone = {}
  /\ ego_log = << >>

\* ---- the frame kinds update() schedules with a rolling counter ----
ScheduledKinds ==
  {"friction_brake", "gas_regen", "adas_time", "adas_steering_status",
   "adas_accelerometer_speed"}

VARIABLES
  prev_idx,                   \* kind -> counter of the last frame of the kind sent before the last call, -1 when none (history)
  held                        \* the scenario a run holds constant, once chosen (history)

sched_vars == <<prev_idx, held>>

\* ---- the initial state ----
vars == <<cc_vars, rd_vars, gl_vars, lrl_vars, sched_vars>>

SchedInit ==
  /\ prev_idx = [k \in ScheduledKinds |-> -1]
  /\ held = FALSE

GLInit ==
  /\ gl_in = [v_ego |-> 0, ready |-> FALSE, lead_msg |-> NoVision,
              low_speed_override |-> FALSE, md |-> NoModel, clusters |-> << >>,
              lane_width |-> 360]
  /\ gl_out = NoLead
  /\ gl_calls = 0

LRLInit ==
  /\ lrl = NewLongRangeLead
  /\ lrl_in = NoLead
  /\ lrl_out = [lead |-> NoLead, reset |-> FALSE]
  /\ lrl_pre = NewLongRangeLead
  /\ lrl_in_pre = NoLead
  /\ lrl_calls = 0

\* both parameters set, as with ExtendedRadar and LongRangeLeadsEnabled
Init == CCInit /\ RDInit(TRUE) /\ GLInit /\ LRLInit /\ SchedInit

\* either both parameters set or none
InitRadar == CCInit /\ (\E ext \in BOOLEAN : RDInit(ext)) /\ GLInit /\ LRLInit /\ SchedInit

\* ---- the actions ----
\* one call of CarController.update; an exception ends the controller's process
UpdateSteer ==
  /\ ncalls < MaxSteerCalls
  /\ ~raised
  /\ \E in \in SteerInputs : CCUpdate(in)
  /\ UNCHANGED <<rd_vars, gl_vars, lrl_vars, sched_vars>>

UpdateLong ==
  /\ ncalls < MaxCalls
  /\ ~raised
  /\ \E in \in LongInputs : CCUpdate(in)
  /\ UNCHANGED <<rd_vars, gl_vars, lrl_vars, sched_vars>>

\* the counter of the frame of a kind in a frame list, or the one known before
LastIdxOf(sends, kind, before) ==
  LET fs == SelectSeq(sends, LAMBDA f : f.kind = kind)
  IN  IF Len(fs) > 0 THEN fs[Len(fs)].idx ELSE before

\* one call of CarController.update in a run whose frame counts the calls
UpdateTick ==
  /\ ncalls < MaxTicks
  /\ ~raised
  /\ \E in \in TickInputs(ncalls) : CCUpdate(in)
  /\ prev_idx' = [k \in ScheduledKinds |-> LastIdxOf(can_sends, k, prev_idx[k])]
  /\ UNCHANGED <<rd_vars, gl_vars, lrl_vars, held>>

\* one call of RadarD.update; an exception ends radard_thread
UpdateRadar ==
  /\ rd_calls < MaxRadarCalls
  /\ ~rd_raised
  /\ \E in \in RDInputs : RDUpdate(in)
  /\ UNCHANGED <<cc_vars, gl_vars, lrl_vars, sched_vars>>

\* get_lead applied to one argument list
GetLeadCall ==
  /\ gl_calls = 0
  /\ \E in \in GetLeadInputs :
       /\ gl_in' = in
       /\ gl_calls' = 1
       /\ gl_out' = get_lead(in.v_ego, in.ready, in.clusters, in.lead_msg,
                             in.low_speed_override, in.md, in.lane_width)
  /\ UNCHANGED <<cc_vars, rd_vars, lrl_vars, sched_vars>>

\* one call of LongRangeLead.update
LRLCall ==
  /\ lrl_calls < MaxLRLCalls
  /\ \E lead \in LRLLeads :
       \E r \in {LRLUpdate(lrl, lead)} :
         /\ lrl' = r.lr
         /\ lrl_in' = lead
         /\ lrl_out' = [lead |-> r.lead, reset |-> r.reset]
         /\ lrl_pre' = lrl
         /\ lrl_in_pre' = lrl_in
         /\ lrl_calls' = lrl_calls + 1
  /\ UNCHANGED <<cc_vars, rd_vars, gl_vars, sched_vars>>

\* the controller driven with steering inputs
SpecSteer == Init /\ [][UpdateSteer]_vars

\* the controller driven with longitudinal inputs
SpecLong == Init /\ [][UpdateLong]_vars

\* one call of a 100 Hz run that holds the scenario of its first call; the frame
\* counts up and sec_since_boot() advances by DT_CTRL
UpdateScenario ==
  /\ ncalls < MaxScenarioTicks
  /\ ~raised
  /\ \E sc \in ScenarioInputs :
       /\ held => sc = [cin EXCEPT !.frame = CS0.frame, !.t = CS0.t]
       /\ CCUpdate([sc EXCEPT !.frame = ncalls, !.t = CS0.t + 10 * ncalls])
  /\ held' = TRUE
  /\ UNCHANGED <<rd_vars, gl_vars, lrl_vars, prev_idx>>

\* one call at or around a standstill
UpdateResume ==
  /\ ncalls < MaxCalls
  /\ ~raised
  /\ \E in \in ResumeInputs : CCUpdate(in)
  /\ UNCHANGED <<rd_vars, gl_vars, lrl_vars, sched_vars>>

\* the controller called at 100 Hz with the frame counting up from 0
SpecSched == Init /\ [][UpdateTick]_vars

\* the controller driven at and around a standstill
SpecResume == Init /\ [][UpdateResume]_vars

\* the controller called at 100 Hz with one scenario held constant
SpecScenario == Init /\ [][UpdateScenario]_vars

\* radar fusion, tick after tick
SpecRadar == InitRadar /\ [][UpdateRadar]_vars

\* get_lead over its arguments
SpecLead == Init /\ [][GetLeadCall]_vars

\* a LongRangeLead over sequences of leads
SpecLRL == Init /\ [][LRLCall]_vars

\* ---- the frames of the last call ----
FramesOfKind(kind) == SelectSeq(can_sends, LAMBDA f : f.kind = kind)

SteerFramesSent == FramesOfKind("steering")

\* the last call was a 25 Hz slot that ran the disabled branch
DisabledSlot ==
  /\ ncalls >= 1
  /\ cin.frame % 4 = 0
  /\ (~cin.enabled \/ cin.pause_long_on_gas_press)

\* ---- steering frames ----

\* C1, as the code has it: every steering frame carries (c + 1) mod 4 where c is the
\* loopback counter the controller last recorded; so of two successive frames the
\* second carries the first's counter plus one exactly when the loopback counter
\* advanced by one in between, and repeats the first's counter when the loopback
\* counter stayed the same.
C1_CounterFollowsLoopback ==
  /\ \A i \in 1..Len(steer_idx_hist) :
       steer_idx_hist[i].idx = (steer_idx_hist[i].lb + 1) % 4
  /\ SteerFramesSent # << >> =>
       /\ Len(SteerFramesSent) = 1
       /\ cin.lka_steering_cmd_counter = lka_steering_cmd_counter_last
       /\ SteerFramesSent[1].idx = (lka_steering_cmd_counter_last + 1) % 4
       /\ SteerFramesSent[1].idx = Last(steer_idx_hist).idx
  /\ Len(steer_idx_hist) = 2 =>
       /\ steer_idx_hist[2].lb = (steer_idx_hist[1].lb + 1) % 4
            => steer_idx_hist[2].idx = (steer_idx_hist[1].idx + 1) % 4
       /\ steer_idx_hist[2].lb = steer_idx_hist[1].lb
            => steer_idx_hist[2].idx = steer_idx_hist[1].idx

\* two frames sent, the loopback counter having advanced by one in between
C1_Witness ==
  /\ Len(steer_idx_hist) = 2
  /\ SteerFramesSent # << >>
  /\ steer_idx_hist[2].lb = (steer_idx_hist[1].lb + 1) % 4
  /\ steer_idx_hist[2].idx = 0

\* C1 as stated: two successively sent steering frames carry c and (c + 1) mod 4
C1_NeverRepeatsOrSkips ==
  Len(steer_idx_hist) = 2 =>
    steer_idx_hist[2].idx = (steer_idx_hist[1].idx + 1) % 4

\* C2, as the code has it: a call whose CS.lka_steering_cmd_counter differs from the
\* recorded lka_steering_cmd_counter_last (a confirmation has just come in) sends no
\* steering frame, even on a steering tick, leaves apply_steer_last as it was and
\* records the new counter.
C2_SkipOnNewLoopback ==
  (ncalls >= 1 /\ cin.lka_steering_cmd_counter # pre.lka_steering_cmd_counter_last) =>
    /\ SteerFramesSent = << >>
    /\ apply_steer_last = pre.apply_steer_last
    /\ steer_rate_limited = pre.steer_rate_limited
    /\ steer_idx_hist = pre.steer_idx_hist
    /\ lka_steering_cmd_counter_last = cin.lka_steering_cmd_counter

\* a steering tick with a torque request, skipped because the confirmation of the
\* frame sent before has just come in
C2_Witness ==
  /\ ncalls >= 2
  /\ pre.steer_idx_hist # << >>
  /\ cin.lka_steering_cmd_counter # pre.lka_steering_cmd_counter_last
  /\ cin.frame % STEER_STEP = 0
  /\ cin.enabled /\ cin.steer # 0
  /\ SteerFramesSent = << >>

\* C2 as stated: with the loopback counter still what it was at the last
\* transmission, the next steering tick sends nothing and keeps apply_steer_last
C2_SilentWhileUnconfirmed ==
  (/\ ncalls >= 1
   /\ pre.steer_idx_hist # << >>
   /\ cin.lka_steering_cmd_counter = Last(pre.steer_idx_hist).lb
   /\ cin.lka_steering_cmd_counter = pre.lka_steering_cmd_counter_last
   /\ cin.frame % STEER_STEP = 0) =>
    /\ SteerFramesSent = << >>
    /\ apply_steer_last = pre.apply_steer_last

\* ---- gas and brake commands ----

\* C3 as stated: after every call the brake command is a whole number in
\* [0, BRAKE_LOOKUP_V[0]] and the gas command a whole number in
\* [MAX_ACC_REGEN, GAS_LOOKUP_V[-1]]
C3_CommandsInRange ==
  ncalls >= 1 =>
    /\ IsInt(apply_brake)
    /\ 0 <= apply_brake /\ apply_brake <= BRAKE_LOOKUP_V[1]
    /\ IsInt(apply_gas)
    /\ 10 * MAX_ACC_REGEN <= apply_gas /\ apply_gas <= Last(GAS_LOOKUP_V)

\* C4, as the code has it: after a slot that ran the one-pedal branch
\* (enabled, not paused, CS.one_pedal_mode_active) one_pedal_decel is at least
\* ONE_PEDAL_MAX_DECEL, and so is the brake looked up from it at most MAX_BRAKE
C4_FloorInOnePedalMode ==
  long_branch = "one_pedal" =>
    /\ one_pedal_decel >= ONE_PEDAL_MAX_DECEL
    /\ interp(one_pedal_decel, BRAKE_LOOKUP_BP, BRAKE_LOOKUP_V) <= 10 * MAX_BRAKE

\* the floor at work: one-pedal mode entered with one_pedal_decel below it
C4_Witness ==
  /\ long_branch = "one_pedal"
  /\ pre.one_pedal_decel < ONE_PEDAL_MAX_DECEL
  /\ one_pedal_decel = ONE_PEDAL_MAX_DECEL

\* C4 as stated: one_pedal_decel is at least ONE_PEDAL_MAX_DECEL in every state
C4_FloorAlways == one_pedal_decel >= ONE_PEDAL_MAX_DECEL

\* C5: a slot with the controller disabled or paused leaves apply_gas at
\* MAX_ACC_REGEN, apply_brake at 0, the PID reset and both one-pedal filter values
\* at CS.out.aEgo, and the brake and gas frames of that slot carry these commands
C5_DisabledBranch ==
  DisabledSlot =>
    /\ apply_gas = 10 * MAX_ACC_REGEN
    /\ apply_brake = 0
    /\ one_pedal_pid = "reset"
    /\ one_pedal_decel = cin.aEgo
    /\ one_pedal_decel_in = cin.aEgo
    /\ Len(FramesOfKind("friction_brake")) = 1
    /\ FramesOfKind("friction_brake")[1].val = 0
    /\ \A i \in 1..Len(can_sends) :
         can_sends[i].kind = "gas_regen" => can_sends[i].val = 10 * MAX_ACC_REGEN
    /\ Len(FramesOfKind("gas_regen")) = IF AutoHold(cin.enabled, cin) THEN 0 ELSE 1

\* a paused slot that takes the controller out of a running one-pedal brake
C5_Witness ==
  /\ DisabledSlot
  /\ pre.one_pedal_pid = "running"
  /\ pre.apply_brake > 0
  /\ cin.aEgo # 0
  /\ cin.one_pedal_mode_active
  /\ Len(FramesOfKind("gas_regen")) = 1

\* ---- radar tracks ----

\* C6: after every RadarD.update the ids of tracks are exactly the trackIds of that
\* call's radar reading; an id that was not tracked before the call, also one that
\* was tracked earlier and had gone, has a Track created in this call (one update
\* counted), and an id tracked before has its Track updated once more
C6_TrackLifecycle ==
  rd_calls >= 1 =>
    /\ DOMAIN tracks = {rd_in.points[i].trackId : i \in 1..Len(rd_in.points)}
    /\ \A id \in DOMAIN tracks :
         /\ id \notin DOMAIN pre_rd.tracks => tracks[id].cnt = 1
         /\ id \in DOMAIN pre_rd.tracks => tracks[id].cnt = pre_rd.tracks[id].cnt + 1

\* an id comes back after it had gone, while another one goes
C6_Witness ==
  /\ \E id \in DOMAIN tracks :
       id \in gone /\ id \notin DOMAIN pre_rd.tracks /\ tracks[id].cnt = 1
  /\ DOMAIN pre_rd.tracks \ DOMAIN tracks # {}

\* ---- get_lead ----
\* the arguments of the last get_lead call
GLConfident == VisionConfident(gl_in.ready, gl_in.lead_msg)

\* the cluster the vision hypothesis scores best, and whether it passes the gates
GLVisionBest == BestVisionCluster(gl_in.v_ego, gl_in.lead_msg, gl_in.clusters, 2, 1)

GLVisionRejected ==
  /\ GLConfident
  /\ Len(gl_in.clusters) > 0
  /\ ~(DistSane(gl_in.lead_msg, GLVisionBest)
       /\ VelSane(gl_in.v_ego, gl_in.lead_msg, GLVisionBest))

GLNoVisionMatch == GLConfident /\ (Len(gl_in.clusters) = 0 \/ GLVisionRejected)

\* the clusters near the model path, sorted, when the path is long enough
GLPathCandidates ==
  IF gl_in.md.present /\ Len(gl_in.md.position_x) = TRAJECTORY_SIZE
     /\ Last(gl_in.md.position_x) >= LEAD_PATH_DREL_MIN
  THEN SortByDev(NearPath(CloseClusters(gl_in.clusters, gl_in.md.position_x,
                                        gl_in.md.position_y, 1)))
  ELSE << >>

GLPathPick == MiddleScan(GLPathCandidates, 2, GLPathCandidates[1]).c

\* C7, as the code has it: with a confident vision hypothesis and no radar cluster
\* passing the gates, get_lead takes the vision-only lead at once, whatever the path
\* and lane-line matches would give; those are tried, path first, only without a
\* confident vision hypothesis; the low-speed override may then replace the lead
C7_VisionOnlyFirst ==
  gl_calls = 1 =>
    \/ gl_out.checkSource = "lowSpeedOverride"
    \/ /\ GLNoVisionMatch =>
            gl_out = get_RadarState_from_vision(gl_in.lead_msg, gl_in.v_ego)
       /\ (~GLConfident /\ gl_in.md.present) =>
            LET p == match_model_path_to_cluster(gl_in.v_ego, gl_in.md, gl_in.clusters)
                l == match_model_lanelines_to_cluster(gl_in.v_ego, gl_in.md,
                                                      gl_in.lane_width, gl_in.clusters)
            IN  IF p.found THEN gl_out.cid = p.c.id /\ gl_out.checkSource = "modelPath"
                ELSE IF l.found
                THEN gl_out.cid = l.c.id /\ gl_out.checkSource = "modelLaneLines"
                ELSE ~gl_out.status
       /\ (~GLConfident /\ ~gl_in.md.present) => ~gl_out.status

\* the vision-only lead returned although the path match has a cluster
C7_Witness ==
  /\ gl_calls = 1
  /\ GLVisionRejected
  /\ match_model_path_to_cluster(gl_in.v_ego, gl_in.md, gl_in.clusters).found
  /\ gl_out.status /\ ~gl_out.radar /\ gl_out.cid = 0

\* C7 as stated: with a confident vision hypothesis and no sane radar match, the
\* vision-only lead is returned only when path and lane-line matches give nothing
C7_PathBeforeVisionOnly ==
  (/\ gl_calls = 1
   /\ GLNoVisionMatch
   /\ \/ match_model_path_to_cluster(gl_in.v_ego, gl_in.md, gl_in.clusters).found
      \/ match_model_lanelines_to_cluster(gl_in.v_ego, gl_in.md, gl_in.lane_width,
                                          gl_in.clusters).found) =>
    gl_out.radar

\* C8, as the code has it: a cluster that failed the vision gates is not returned
\* as the vision-matched lead (checkSource modelLead), and get_lead returns a lead
\* with status true all the same: the vision-only one, or that of the low-speed
\* override, which may be the very cluster; when the path pick fails the slow-lead
\* gate no lead is returned with checkSource modelPath
C8_RejectedNotMatched ==
  gl_calls = 1 =>
    /\ GLVisionRejected =>
         /\ ~(gl_out.radar /\ gl_out.checkSource = "modelLead")
         /\ gl_out.status
         /\ gl_out.radar => gl_out.checkSource = "lowSpeedOverride"
    /\ (GLPathCandidates # << >> /\ ~PathVelSane(gl_in.v_ego, GLPathPick)) =>
         gl_out.checkSource # "modelPath"

\* the cluster the vision gates rejected is returned by the low-speed override
C8_Witness ==
  /\ gl_calls = 1
  /\ GLVisionRejected
  /\ gl_out.cid = GLVisionBest.id
  /\ gl_out.checkSource = "lowSpeedOverride"

\* C8 as stated: a cluster that failed the vision gates or the slow-lead gate of
\* the path match is not the cluster of the lead get_lead returns
C8_RejectedNeverSurfaced ==
  gl_calls = 1 =>
    /\ GLVisionRejected => gl_out.cid # GLVisionBest.id
    /\ (~GLConfident /\ GLPathCandidates # << >>
        /\ ~PathVelSane(gl_in.v_ego, GLPathPick)) => gl_out.cid # GLPathPick.id

\* ---- LongRangeLead ----
LRLSame(a, b) == \A k \in LRLFields : a[k] = b[k]

\* C9: LongRangeLead.update returns a lead with status true and checkSource
\* modelLead with its six kinematic fields as they came in
C9_ModelLeadPassthrough ==
  (lrl_calls >= 1 /\ lrl_in.status /\ lrl_in.checkSource = "modelLead") =>
    LRLSame(lrl_out.lead, lrl_in)

\* a modelLead lead in the smoothing band, right after a lead close enough to it
\* that a lead of another source would have been smoothed
C9_Witness ==
  /\ lrl_calls >= 2
  /\ lrl_in.status /\ lrl_in.checkSource = "modelLead"
  /\ lrl_in.dRel > LEAD_MIN_SMOOTHING_DISTANCE
  /\ lrl_pre.has_last /\ lrl_pre.lead_last.status
  /\ lrl_pre.f["dRel"].initialized
  /\ lrl_pre.f["dRel"].x # lrl_in.dRel
  /\ lrl_pre.lead_last.yRel = lrl_in.yRel
  /\ Abs(lrl_pre.lead_last.dRel - lrl_in.dRel) <= 800

\* C10, as the code has it: a lead with status true that is nearer than 145 m or
\* has checkSource modelLead resets the filter and comes back with its six fields
\* as they came in, whatever the filter held; so a lead comes back changed only
\* if it is at 145 m or more and not a modelLead one (also beyond 152 m)
C10_ResetBelowBand ==
  (lrl_calls >= 1 /\ lrl_in.status) =>
    /\ (lrl_in.dRel < LEAD_MIN_SMOOTHING_DISTANCE \/ lrl_in.checkSource = "modelLead") =>
         /\ lrl_out.reset
         /\ LRLSame(lrl_out.lead, lrl_in)
         /\ \A k \in LRLFields : lrl.f[k].x = lrl_in[k]
    /\ ~LRLSame(lrl_out.lead, lrl_in) =>
         /\ lrl_in.dRel >= LEAD_MIN_SMOOTHING_DISTANCE
         /\ lrl_in.checkSource # "modelLead"
         /\ ~lrl_out.reset

\* a near lead of another source than modelLead, the filter holding other values
C10_Witness ==
  /\ lrl_calls >= 2
  /\ lrl_in.status /\ lrl_in.checkSource # "modelLead"
  /\ lrl_in.dRel < LEAD_MIN_SMOOTHING_DISTANCE
  /\ lrl_pre.f["dRel"].initialized
  /\ lrl_pre.f["dRel"].x > LEAD_MIN_SMOOTHING_DISTANCE
  /\ lrl_pre.lead_last.yRel = lrl_in.yRel

\* C10 as stated: every lead with status true that is outside [145, 152] m or has
\* checkSource modelLead leaves the filter without memory and comes back with its
\* six fields as they came in
C10_PassthroughOutsideBand ==
  (/\ lrl_calls >= 1
   /\ lrl_in.status
   /\ \/ lrl_in.dRel < LEAD_MIN_SMOOTHING_DISTANCE
      \/ lrl_in.dRel > LEAD_MAX_DISTANCE
      \/ lrl_in.checkSource = "modelLead") =>
    /\ LRLSame(lrl_out.lead, lrl_in)
    /\ \A k \in LRLFields : lrl.f[k].x = lrl_in[k]

\* ---- path-adjacent leads ----
\* the last RadarD.update produced the three path-adjacent lists (lines 419-432)
AdjacentProduced ==
  rd_calls >= 1 /\ ~rd_raised /\ rd_in.enable_lead /\ extended_radar_enabled /\ ready

AdjacentLists ==
  radarState.leadsLeft \o radarState.leadsCenter \o radarState.leadsRight

\* C11: on a tick where the lists are produced every cluster appears in exactly one
\* of leadsLeft, leadsCenter, leadsRight (none is dropped, none is listed twice), and
\* every leadsCenter entry has |dPath| < laneWidth / 2
C11_AdjacentPartition ==
  AdjacentProduced =>
    /\ \A i \in 1..Len(clusters) :
         Cardinality({j \in 1..Len(AdjacentLists) :
                        AdjacentLists[j].cid = clusters[i].id}) = 1
    /\ Len(AdjacentLists) = Len(clusters)
    /\ \A j \in 1..Len(radarState.leadsCenter) :
         2 * Abs(radarState.leadsCenter[j].dPath) < rd_in.laneWidth

\* ---- periodic scheduling ----
\* the modulus of a scheduled kind: lines 246, 298 and 306
KindStep(kind) ==
  CASE kind \in {"friction_brake", "gas_regen"} -> 4
    [] kind = "adas_time" -> 10
    [] OTHER -> 2

\* the last call was a 25 Hz slot in the auto-hold state
AutoHoldSlot == ncalls >= 1 /\ cin.frame % 4 = 0 /\ AutoHold(cin.enabled, cin)

\* C12, as the code has it: a frame of a scheduled kind is sent at most once per call
\* and only on a tick of its modulus, with counter (frame // step) mod 4; a call
\* that raises sends nothing, every other call sends the friction-brake and ADAS
\* frames on each of their ticks and the gas/regen frame on each 25 Hz slot that is
\* not in auto-hold; a gas/regen frame follows a friction-brake frame of the same
\* counter, and successive friction-brake and ADAS frames count up by 1 mod 4
C12_EmittedOnlyOnDueTicks ==
  ncalls >= 1 =>
    /\ \A k \in ScheduledKinds :
         LET fs == FramesOfKind(k)
             due == cin.frame % KindStep(k) = 0
         IN  /\ Len(fs) <= 1
             /\ Len(fs) = 1 =>
                  /\ due
                  /\ fs[1].idx = (cin.frame \div KindStep(k)) % 4
                  /\ (k # "gas_regen" /\ prev_idx[k] >= 0)
                       => fs[1].idx = (prev_idx[k] + 1) % 4
             /\ ~raised =>
                  (Len(fs) = 1 <=> (due /\ ~(k = "gas_regen" /\ AutoHoldSlot)))
    /\ raised => can_sends = << >>
    /\ Len(FramesOfKind("gas_regen")) = 1 =>
         /\ Len(FramesOfKind("friction_brake")) = 1
         /\ FramesOfKind("gas_regen")[1].idx = FramesOfKind("friction_brake")[1].idx

\* frame 20: the third ADAS time frame, and a gas/regen frame whose counter does not
\* follow the previous gas/regen frame's because a slot between them was in auto-hold
C12_Witness ==
  /\ cin.frame = 20
  /\ Len(FramesOfKind("adas_time")) = 1
  /\ prev_idx["adas_time"] = 1
  /\ Len(FramesOfKind("gas_regen")) = 1
  /\ prev_idx["gas_regen"] >= 0
  /\ FramesOfKind("gas_regen")[1].idx # (prev_idx["gas_regen"] + 1) % 4

\* C12 as claimed: every scheduled kind is sent exactly on the ticks of its modulus,
\* with counter (frame // step) mod 4, successive counters of a kind count up by 1
\* mod 4, and the brake and gas frames of a slot carry the same counter
C12_EmittedOnEveryDueTick ==
  ncalls >= 1 =>
    /\ \A k \in ScheduledKinds :
         LET fs == FramesOfKind(k)
         IN  /\ Len(fs) = 1 <=> cin.frame % KindStep(k) = 0
             /\ Len(fs) <= 1
             /\ Len(fs) = 1 =>
                  /\ fs[1].idx = (cin.frame \div KindStep(k)) % 4
                  /\ prev_idx[k] >= 0 => fs[1].idx = (prev_idx[k] + 1) % 4
    /\ cin.frame % 4 = 0 =>
         FramesOfKind("gas_regen")[1].idx = FramesOfKind("friction_brake")[1].idx

\* the position of the frame of a kind in the last call's list, 0 when it is not there
PosOf(kind) ==
  IF \E i \in 1..Len(can_sends) : can_sends[i].kind = kind
  THEN CHOOSE i \in 1..Len(can_sends) : can_sends[i].kind = kind
  ELSE 0

\* C13: in the list one update() call returns the steering frame comes before the
\* friction-brake frame and the friction-brake frame before the gas/regen frame, and
\* the two carry the brake and gas commands this call decided (written to
\* CS.brake_cmd in the same call)
C13_WithinTickOrder ==
  ncalls >= 1 =>
    /\ (PosOf("steering") > 0 /\ PosOf("friction_brake") > 0)
         => PosOf("steering") < PosOf("friction_brake")
    /\ (PosOf("friction_brake") > 0 /\ PosOf("gas_regen") > 0)
         => PosOf("friction_brake") < PosOf("gas_regen")
    /\ PosOf("friction_brake") > 0 =>
         /\ can_sends[PosOf("friction_brake")].val = apply_brake
         /\ CS.brake_cmd = apply_brake
    /\ PosOf("gas_regen") > 0 => can_sends[PosOf("gas_regen")].val = apply_gas

\* an enabled slot that steers and brakes: all three frames, a brake command above 0
C13_Witness ==
  /\ ncalls >= 2
  /\ cin.enabled
  /\ PosOf("steering") = 1
  /\ PosOf("friction_brake") = 2
  /\ PosOf("gas_regen") = 3
  /\ apply_brake > 0
  /\ can_sends[2].val = apply_brake
  /\ can_sends[1].val # 0

\* ---- auto-hold ----
\* C14: every tick with frame % 4 == 0 emits exactly one friction-brake frame; the
\* auto-hold branch (no gas/regen frame, CS.autoHoldActivated set) is taken only with
\* cruiseMain, not enabled, autoHold, autoHoldActive, gas not pressed, gear drive or
\* low, vEgo < 0.02 and the regen paddle released, and every other slot clears
\* CS.autoHoldActivated
C14_AutoHoldExclusive ==
  (ncalls >= 1 /\ cin.frame % 4 = 0) =>
    /\ Len(FramesOfKind("friction_brake")) = 1
    /\ IF /\ cin.cruiseMain /\ ~cin.enabled /\ cin.autoHold /\ cin.autoHoldActive
          /\ ~cin.gasPressed /\ cin.gearShifter \in {"drive", "low"}
          /\ cin.vEgo < 20 /\ ~cin.regenPaddlePressed
       THEN Len(FramesOfKind("gas_regen")) = 0 /\ CS.autoHoldActivated
       ELSE ~CS.autoHoldActivated

\* ---- exceptions ----
\* C17: CarController.update completes and returns its frame list in every enabled
\* 25 Hz slot, whatever the CarState values (CS.tr <= 0, CS.vEgo = 0, a lead at any
\* distance)
C17_ControllerNeverRaises ==
  (ncalls >= 1 /\ cin.enabled /\ cin.frame % 4 = 0) =>
    /\ ~raised
    /\ Len(FramesOfKind("friction_brake")) = 1

\* ---- one-pedal rate limit ----
\* UP * max(1, 0.5 - new * 0.5), in mm/s^2 per slot
RateLimitUp(new) == RoundDiv(ONE_PEDAL_DECEL_RATE_LIMIT_UP * Max(2000, 1000 - new), 2000)

\* the last call was an enabled 25 Hz slot that completed
EnabledSlot ==
  /\ ncalls >= 1 /\ ~raised
  /\ cin.frame % 4 = 0 /\ cin.enabled /\ ~cin.pause_long_on_gas_press

\* C15, as the code has it: in a slot that runs the one-pedal branch
\* (one_pedal_mode_active) from a value at or above the floor, one_pedal_decel moves
\* down by at most UP * max(1, 0.5 - raw * 0.5), raw the PID output, and up by at
\* most DOWN; from a value below the floor it is lifted to the floor; in
\* coast-one-pedal mode it stays and one_pedal_decel_in moves by at most UP or DOWN
C15_RateLimitInOnePedal ==
  /\ (EnabledSlot /\ cin.one_pedal_mode_active) =>
       IF pre.one_pedal_decel >= ONE_PEDAL_MAX_DECEL
       THEN /\ one_pedal_decel >= pre.one_pedal_decel - RateLimitUp(cin.pid_out)
            /\ one_pedal_decel <= pre.one_pedal_decel + ONE_PEDAL_DECEL_RATE_LIMIT_DOWN
       ELSE /\ one_pedal_decel >= ONE_PEDAL_MAX_DECEL
            /\ one_pedal_decel <= Max(ONE_PEDAL_MAX_DECEL,
                                      pre.one_pedal_decel + ONE_PEDAL_DECEL_RATE_LIMIT_DOWN)
  /\ (EnabledSlot /\ ~cin.one_pedal_mode_active /\ cin.coast_one_pedal_mode_active) =>
       /\ one_pedal_decel = pre.one_pedal_decel
       /\ one_pedal_decel_in >= pre.one_pedal_decel_in - ONE_PEDAL_DECEL_RATE_LIMIT_UP
       /\ one_pedal_decel_in <= pre.one_pedal_decel_in + ONE_PEDAL_DECEL_RATE_LIMIT_DOWN

\* two one-pedal slots in a row, the second held back by the limit: the PID asks for
\* the full deceleration and one_pedal_decel moves by the limit only
C15_Witness ==
  /\ ncalls = 2
  /\ EnabledSlot /\ cin.one_pedal_mode_active
  /\ pre.one_pedal_pid = "running"
  /\ cin.pid_out = ONE_PEDAL_MAX_DECEL
  /\ pre.one_pedal_decel < 0
  /\ one_pedal_decel = pre.one_pedal_decel - RateLimitUp(cin.pid_out)
  /\ one_pedal_decel > cin.pid_out

\* C15 as claimed: between any two consecutive 25 Hz slots one_pedal_decel moves by
\* at most max(UP * max(1, 0.5 - new * 0.5), DOWN), whatever the mode flags
C15_RateLimitAlways ==
  (ncalls >= 1 /\ cin.frame % 4 = 0) =>
    Abs(one_pedal_decel - pre.one_pedal_decel)
      <= Max(Max(RateLimitUp(one_pedal_decel), RateLimitUp(cin.pid_out)),
             ONE_PEDAL_DECEL_RATE_LIMIT_DOWN)

\* ---- exceptions of RadarD.update ----
\* C16: RadarD.update never lets an exception cross the tick boundary: every call
\* returns a radarState message, whatever the clusters, the model message, the lane
\* width and the extended mode
C16_RadarNeverRaises ==
  rd_calls >= 1 => ~rd_raised

\* ---- a track disappears ----
\* the last tick had no radar points and no vision lead above 0.5, after a tick with
\* points
NoPointsTick ==
  /\ rd_calls >= 2 /\ ~rd_raised
  /\ DOMAIN pre_rd.tracks # {}
  /\ rd_in.points = << >>
  /\ \A i \in DOMAIN rd_in.leadsV3 : rd_in.leadsV3[i].prob <= 50

\* C18: after a tick without radar points and without a vision lead above 0.5,
\* tracks is empty, the cluster list is empty, leadOne.status is false and the
\* leadOnePlus filter is in its reset state (lead_last None, six filters
\* uninitialized)
C18_TrackDisappears ==
  NoPointsTick =>
    /\ DOMAIN tracks = {}
    /\ clusters = << >>
    /\ ~radarState.leadOne.status
    /\ ~lead_one_plus_lr.has_last
    /\ \A k \in LRLFields : ~lead_one_plus_lr.f[k].initialized

\* ---- lead-accel lockout timer ----
\* C19: while one_pedal_mode_op_braking_allowed is true and less than 0.6 s have
\* passed since lead_accel_last_t, one-pedal entry is suppressed: the one-pedal
\* branch does not run in the slot and leaves apply_gas to the planner, even with
\* one_pedal_mode_active
C19_LockoutSuppressesOnePedal ==
  (/\ EnabledSlot
   /\ cin.one_pedal_mode_active
   /\ cin.one_pedal_mode_op_braking_allowed
   /\ cin.t - lead_accel_last_t < ONE_PEDAL_LEAD_ACCEL_RATE_LOCKOUT_T) =>
    /\ long_branch # "one_pedal"
    /\ apply_gas = IntRound(interp(cin.accelPitchCompensated, GAS_LOOKUP_BP, GAS_LOOKUP_V))

\* ---- one-pedal light braking ----
\* 25 Hz slots among the calls made so far (frames 0 .. ncalls - 1)
SlotsDone == (ncalls + 3) \div 4

\* interp(-1.1, BRAKE_LOOKUP_BP, BRAKE_LOOKUP_V), as line 219 rounds it
LightBrake == IntRound(interp(-1100, BRAKE_LOOKUP_BP, BRAKE_LOOKUP_V))

PlannerBrake(in) ==
  LET k == interp(in.vEgo, ACCEL_PITCH_FACTOR_BP, ACCEL_PITCH_FACTOR_V)
      brake_accel == RoundDiv(k * in.accelPitchCompensated + (1000 - k) * in.accel, 1000)
  IN  interp(brake_accel, BRAKE_LOOKUP_BP, BRAKE_LOOKUP_V)

\* line 125: the planner's gas, before any adjustment
PlannerGas(in) == interp(in.accelPitchCompensated, GAS_LOOKUP_BP, GAS_LOOKUP_V)

\* the last call was an enabled slot with both one-pedal modes off
PlannerSlot ==
  /\ EnabledSlot
  /\ ~cin.one_pedal_mode_active /\ ~cin.coast_one_pedal_mode_active

\* C21: in an enabled slot with coasting enabled and one-pedal off, a planner source
\* outside COAST_SOURCES leaves the planner's brake and gas as looked up, whatever
\* the lead brake-lockout factor is
C21_CoastingOnlyForCoastSources ==
  (PlannerSlot /\ cin.coasting_enabled /\ cin.coasting_long_plan \notin COAST_SOURCES) =>
    /\ apply_brake = IntRound(PlannerBrake(cin))
    /\ apply_gas = IntRound(PlannerGas(cin))

\* ---- brake merge ----
\* lines 188 and 191: one_pedal_apply_brake of the slot just run
OnePedalApplyBrake ==
  IF cin.one_pedal_mode_active
  THEN interp(one_pedal_decel, BRAKE_LOOKUP_BP, BRAKE_LOOKUP_V) ELSE 0

\* the last call was an enabled slot that ran the one-pedal or coast-one-pedal code
OnePedalSlot ==
  /\ EnabledSlot
  /\ cin.one_pedal_mode_active \/ cin.coast_one_pedal_mode_active

ResumeButtonSet ==
  \E i \in DOMAIN can_sends : can_sends[i].kind = "acc_dashboard" /\ can_sends[i].b

\* the last call set CS.resume_required
ResumeRequiredSet == CS.resume_required /\ ~pre.resume_required

\* line 277 in an engaged slot: standstill, and the gas command of line 126 not
\* below ZERO_GAS
ResumeCondition ==
  /\ cin.frame % 4 = 0
  /\ cin.enabled /\ ~cin.pause_long_on_gas_press
  /\ cin.pcm_acc_status = "standstill"
  /\ interp(cin.accel, GAS_LOOKUP_BP, GAS_LOOKUP_V) >= 10 * ZERO_GAS

\* C23: update() sets resume_button_pressed or resume_required only in a 25 Hz slot
\* with enabled true, no pause, the PCM at standstill and the gas command without
\* pitch compensation not below ZERO_GAS, and never with enabled false; with do_sng
\* it sets resume_button_pressed and the gas frame carries acc_enabled = false,
\* without do_sng it sets resume_required only below 1.5 m/s
C23_ResumeOnlyWhenEngaged ==
  ncalls >= 1 =>
    /\ (ResumeButtonSet \/ ResumeRequiredSet) => ResumeCondition
    /\ ~cin.enabled => ~ResumeButtonSet /\ ~ResumeRequiredSet
    /\ ResumeButtonSet => cin.do_sng
    /\ (ResumeCondition /\ cin.do_sng) =>
         /\ ~raised => ResumeButtonSet
         /\ \A i \in DOMAIN FramesOfKind("gas_regen") : ~FramesOfKind("gas_regen")[i].a
    /\ ResumeRequiredSet => ~cin.do_sng /\ cin.vEgo < 1500

\* a resume without stop-and-go support in one slot, then one with it: the first
\* sets resume_required, the second the button, with acc_enabled false in an
\* engaged slot
C23_Witness ==
  /\ ncalls = 2
  /\ pre.resume_required
  /\ ResumeCondition /\ cin.do_sng
  /\ ResumeButtonSet
  /\ Len(FramesOfKind("gas_regen")) = 1
  /\ ~FramesOfKind("gas_regen")[1].a

\* ---- the scan for the cluster closest to the middle ----
\* the clusters near the lane centre, sorted, when the lane lines are usable
GLLaneCandidates ==
  IF gl_in.md.present /\ gl_in.lane_width >= 200 /\ Len(gl_in.clusters) > 0
     /\ gl_in.md.n_lane_lines >= 4 /\ Len(gl_in.md.ll_x) = TRAJECTORY_SIZE
     /\ LaneCenter(gl_in.md, gl_in.lane_width).ok
  THEN SortByDev(NearPath(CloseClusters(gl_in.clusters, gl_in.md.ll_x,
                                        LaneCenter(gl_in.md, gl_in.lane_width).y, 1)))
  ELSE << >>

\* the positions the scan reaches: the first, and those up to the first deviation
\* above LEAD_PATH_YREL_LOW_TOL
ScanReach(s) ==
  {1} \cup {j \in 2..Len(s) : \A i \in 2..j : s[i].dev <= LEAD_PATH_YREL_LOW_TOL}

\* the first position within reach that has the smallest dRel within reach
ClosestInReach(s) ==
  CHOOSE k \in ScanReach(s) :
    /\ \A j \in ScanReach(s) : s[k].c.dRel <= s[j].c.dRel
    /\ \A j \in ScanReach(s) : s[j].c.dRel = s[k].c.dRel => k <= j

\* C24, as the code has it: over the candidates sorted by lateral deviation the
\* scan starts at the lowest-deviation cluster, stops at the first cluster whose
\* deviation is above 0.5 m, and on the way takes every cluster that is closer than
\* the current selection; a cluster within 0.5 m that is not closer is passed over
\* and the scan goes on, so the selection is the closest cluster among the first
\* and those within 0.5 m
C24_ScanStopsBeyondTolerance ==
  gl_calls = 1 =>
    \A s \in {GLPathCandidates, GLLaneCandidates} :
      s # << >> => MiddleScan(s, 2, s[1]) = s[ClosestInReach(s)]

\* three candidates near the path: the second is within 0.5 m but farther than the
\* first, the third is within 0.5 m and closer, and get_lead returns the third
C24_Witness ==
  /\ gl_calls = 1
  /\ Len(GLPathCandidates) = 3
  /\ GLPathCandidates[2].dev <= LEAD_PATH_YREL_LOW_TOL
  /\ GLPathCandidates[2].c.dRel >= GLPathCandidates[1].c.dRel
  /\ GLPathCandidates[3].c.dRel < GLPathCandidates[1].c.dRel
  /\ MiddleScan(GLPathCandidates, 2, GLPathCandidates[1]) = GLPathCandidates[3]
  /\ gl_out.status /\ gl_out.checkSource = "modelPath"
  /\ gl_out.cid = GLPathCandidates[3].c.id

\* C24 as claimed: the scan stops at the first cluster that does not replace the
\* selection, so no cluster after a non-replacing one is ever selected
C24_StopsAtFirstNonReplacing ==
  gl_calls = 1 =>
    \A s \in {GLPathCandidates, GLLaneCandidates} :
      s # << >> => MiddleScan(s, 2, s[1]) = MiddleScan_StopAtFirst(s, 2, s[1])

\* ---- the ego-speed delay ring ----
\* C25: v_ego_hist never holds more than delay + 1 entries and changes only on a
\* carState update, by one entry; every track updated in a tick has
\* vLead = vRel + the oldest ring entry, which is the ego speed recorded exactly
\* `delay` carState updates before the latest one once delay + 1 updates have
\* occurred, and the initial 0 before that
C25_EgoSpeedDelayRing ==
  /\ Len(v_ego_hist) <= Delay + 1
  /\ Len(v_ego_hist) = Min(Len(ego_log) + 1, Delay + 1)
  /\ v_ego_hist[1] = IF Len(ego_log) >= Delay + 1
                     THEN ego_log[Len(ego_log) - Delay] ELSE 0
  /\ rd_calls >= 1 =>
       /\ ~rd_in.cs_updated => v_ego_hist = pre_rd.v_ego_hist
       /\ rd_in.cs_updated =>
            /\ Last(v_ego_hist) = rd_in.vEgo
            /\ Len(v_ego_hist) - Len(pre_rd.v_ego_hist) \in {0, 1}
       /\ \A id \in DOMAIN tracks :
            tracks[id].vLead = tracks[id].vRel + v_ego_hist[1]

\* three carState updates with changing speed: the tracks of the third tick use the
\* speed of the second update, not the latest
C25_Witness ==
  /\ Len(ego_log) = Delay + 2
  /\ ego_log[Len(ego_log) - Delay] # Last(ego_log)
  /\ ego_log[1] # ego_log[Len(ego_log) - Delay]
  /\ DOMAIN tracks # {}
  /\ \A id \in DOMAIN tracks :
       tracks[id].vLead = tracks[id].vRel + ego_log[Len(ego_log) - Delay]

\* ---- entering one-pedal mode ----
\* the branches of a slot that runs with both one-pedal modes off, or not enabled
OffBranches == {"disabled", "plain", "coasting", "no_friction"}

\* the last call was a completed slot with both one-pedal modes off, or not enabled
OffSlot == ncalls >= 1 /\ ~raised /\ cin.frame % 4 = 0 /\ long_branch \in OffBranches

\* the last call was a one-pedal or coast-one-pedal slot and the call before it a
\* slot with both modes off, or not enabled
EntrySlot == OnePedalSlot /\ pre.long_branch \in OffBranches

\* C26, as the code has it: the PID is reset and one_pedal_decel and
\* one_pedal_decel_in are snapped to aEgo in every slot that runs with both modes
\* off; the first slot with a mode on resets and snaps nothing, it computes the
\* target and the rate limit from the values the last off slot stored, that slot's
\* aEgo
C26_EntryFromLastOffSlot ==
  /\ OffSlot =>
       /\ one_pedal_pid = "reset"
       /\ one_pedal_decel = cin.aEgo
       /\ one_pedal_decel_in = cin.aEgo
  /\ EntrySlot =>
       /\ pre.one_pedal_pid = "reset"
       /\ IF cin.one_pedal_mode_active
          THEN /\ one_pedal_decel =
                    Max(clip(cin.pid_out,
                             pre.one_pedal_decel - RateLimitUp(cin.pid_out),
                             pre.one_pedal_decel + ONE_PEDAL_DECEL_RATE_LIMIT_DOWN),
                        ONE_PEDAL_MAX_DECEL)
               /\ one_pedal_decel_in = OnePedalDecelIn(cin)
          ELSE /\ one_pedal_decel = pre.one_pedal_decel
               /\ one_pedal_decel_in >=
                    pre.one_pedal_decel_in - ONE_PEDAL_DECEL_RATE_LIMIT_UP
               /\ one_pedal_decel_in <=
                    pre.one_pedal_decel_in + ONE_PEDAL_DECEL_RATE_LIMIT_DOWN

\* an entry slot whose aEgo differs from the aEgo of the off slot before it: the
\* rate limit starts from the stored value
C26_Witness ==
  /\ EntrySlot
  /\ cin.one_pedal_mode_active
  /\ pre.one_pedal_decel # cin.aEgo
  /\ cin.pid_out < pre.one_pedal_decel - RateLimitUp(cin.pid_out)
  /\ one_pedal_decel = pre.one_pedal_decel - RateLimitUp(cin.pid_out)
  /\ one_pedal_decel # OnePedalRateLimit(cin.pid_out, cin.aEgo)

\* C26 as claimed: in the first slot with a mode on after a slot with both off,
\* one_pedal_decel and one_pedal_decel_in are snapped to that slot's aEgo before the
\* target and the rate limit are computed
C26_SnapAtEntrySlot ==
  EntrySlot =>
    IF cin.one_pedal_mode_active
    THEN one_pedal_decel = OnePedalRateLimit(cin.pid_out, cin.aEgo)
    ELSE /\ one_pedal_decel = cin.aEgo
         /\ one_pedal_decel_in >= cin.aEgo - ONE_PEDAL_DECEL_RATE_LIMIT_UP
         /\ one_pedal_decel_in <= cin.aEgo + ONE_PEDAL_DECEL_RATE_LIMIT_DOWN

\* ---- steering frames and the loopback counter ----
\* C27: on a tick where CS.lka_steering_cmd_counter differs from
\* lka_steering_cmd_counter_last update() emits no steering frame, records the new
\* counter and leaves apply_steer_last and steer_rate_limited unchanged; a steering
\* frame is emitted on exactly the ticks where the two counters are equal and
\* frame % STEER_STEP = 0
C27_SteerFrameExactlyWhenConfirmed ==
  ncalls >= 1 =>
    /\ cin.lka_steering_cmd_counter # pre.lka_steering_cmd_counter_last =>
         /\ SteerFramesSent = << >>
         /\ lka_steering_cmd_counter_last = cin.lka_steering_cmd_counter
         /\ apply_steer_last = pre.apply_steer_last
         /\ steer_rate_limited = pre.steer_rate_limited
    /\ Len(SteerFramesSent) = 1 <=>
         /\ cin.lka_steering_cmd_counter = pre.lka_steering_cmd_counter_last
         /\ cin.frame % STEER_STEP = 0
    /\ Len(SteerFramesSent) <= 1

\* ---- the LKA icon frame ----
\* C28: an LKA icon frame is emitted on exactly the ticks where
\* frame % CAMERA_KEEPALIVE_STEP = 0 or (lka_active, lka_critical) differs from
\* lka_icon_status_last, and after every update() call lka_icon_status_last equals
\* that tick's (lka_active, lka_critical)
C28_IconFrameOnEveryChange ==
  ncalls >= 1 =>
    /\ Len(FramesOfKind("lka_icon")) = 1 <=>
         \/ cin.frame % CAMERA_KEEPALIVE_STEP = 0
         \/ LkaIconStatus(cin) # pre.lka_icon_status_last
    /\ Len(FramesOfKind("lka_icon")) <= 1
    /\ lka_icon_status_last = LkaIconStatus(cin)

\* ---- the brake value of the auto-hold frame ----
\* C29: whenever the auto-hold branch is taken, enabled is false, the disabled
\* branch of the same 25 Hz slot has set apply_brake to 0, and the one
\* friction-brake frame of the slot carries brake value 0, whatever apply_brake
\* was before the call
C29_AutoHoldBrakeZero ==
  AutoHoldSlot =>
    /\ ~cin.enabled
    /\ long_branch = "disabled"
    /\ apply_brake = 0
    /\ Len(FramesOfKind("friction_brake")) = 1
    /\ \A i \in DOMAIN FramesOfKind("friction_brake") :
         FramesOfKind("friction_brake")[i].val = 0

\* an auto-hold slot entered with a brake command left over from an engaged slot
C29_Witness ==
  /\ AutoHoldSlot
  /\ pre.apply_brake > 0
  /\ Len(FramesOfKind("friction_brake")) = 1
  /\ FramesOfKind("friction_brake")[1].val = 0

\* ---- lead_last of LongRangeLead ----
\* the distance test of line 289 against a previous distance d
JumpFrom(d) == Abs(d - lrl_in.dRel) > interp(lrl_in.dRel, DREL_BP, D_DREL_MAX_V)

\* C30: after LongRangeLead.update lead_last is the returned lead itself: for a
\* lead with status and checkSource other than modelLead it holds the smoothed dRel
\* and the raw yRel, for a lead without status it is that lead and not None; the
\* jump test of the next update compares the new raw dRel with the smoothed dRel of
\* the previous update
C30_LeadLastIsReturnedLead ==
  lrl_calls >= 1 =>
    /\ lrl.has_last
    /\ lrl.lead_last = lrl_out.lead
    /\ (lrl_in.status /\ ~IsModelLead(lrl_in)) =>
         /\ lrl.lead_last.dRel = lrl.f["dRel"].x
         /\ lrl.lead_last.yRel = lrl_in.yRel
    /\ ~lrl_in.status =>
         /\ lrl.lead_last = lrl_in
         /\ ~lrl.lead_last.status
    /\ (/\ lrl_calls >= 2
        /\ lrl_in.status /\ ~IsModelLead(lrl_in) /\ lrl_in.dRel >= DREL_BP[1]
        /\ lrl_in_pre.status /\ ~IsModelLead(lrl_in_pre)) =>
         /\ lrl_pre.has_last
         /\ lrl_pre.lead_last.dRel = lrl_pre.f["dRel"].x
         /\ lrl_out.reset <=>
              \/ JumpFrom(lrl_pre.f["dRel"].x)
              \/ Abs(lrl_in_pre.yRel - lrl_in.yRel) > D_YREL_MAX

\* two updates with status in a row, the first smoothed away from its raw distance,
\* the second a jump from the raw distance but not from the smoothed one (or the
\* other way round)
C30_Witness ==
  /\ lrl_calls >= 2
  /\ lrl_in.status /\ ~IsModelLead(lrl_in) /\ lrl_in.dRel >= DREL_BP[1]
  /\ lrl_in_pre.status /\ ~IsModelLead(lrl_in_pre)
  /\ lrl_pre.lead_last.dRel # lrl_in_pre.dRel
  /\ JumpFrom(lrl_pre.lead_last.dRel) # JumpFrom(lrl_in_pre.dRel)
  /\ lrl_out.reset = JumpFrom(lrl_pre.lead_last.dRel)
  /\ lrl.lead_last = lrl_out.lead

====
